---------------------------- MODULE Spec2Model ----------------------------
(***************************************************************************)
(* A model of the python-lenses optics engine (src/lenses): the kind       *)
(* lattice and composition (optics/base.py), the functor protocol          *)
(* (const.py, identity.py, maybe.py, functorisor.py), the typeclass        *)
(* dispatch (typeclass.py), the copy-on-write hooks (hooks/hook_funcs.py)  *)
(* and the built-in optics (optics/true_lenses.py, traversals.py,          *)
(* prisms.py, setters.py, folds.py).                                       *)
(*                                                                         *)
(* Python values are tagged records [t, v]; mutable containers (list,      *)
(* dict, set) live in a heap and are referred to by address, so that       *)
(* in-place mutation and aliasing are observable.  An optic is a record    *)
(* [cls, p, q]: its class and its constructor arguments.                   *)
(***************************************************************************)
EXTENDS Integers, Sequences, FiniteSets, TLC

VARIABLES
    lhs,        \* composition session: the left operand / accumulated optic
    rhs,        \* composition session: the right operand
    lhsLeaves,  \* the non-trivial leaf optics lhs was built from, in order
    rhsLeaves,  \* the non-trivial leaf optics rhs was built from, in order
    comp,       \* the last compose call: operands and outcome
    heap,       \* the Python heap: address -> mutable object
    callerState, \* the caller's state (a value, possibly a heap reference)
    callerOptic, \* the optic the caller applies
    call,       \* the last operation called on optic: arguments and outcome
    hashOrder,  \* the order the interpreter's hash tables iterate in
    rev,        \* the re() calls of the caller: how many, the optic it
                \* started from, the optic of the last one and its outcome
    made,       \* the TupleLens the caller constructed: the components
                \* and the outcome
    builderCache \* the _builder_cache of the caller's RecurTraversal

vars == <<lhs, rhs, lhsLeaves, rhsLeaves, comp, heap,
          callerState, callerOptic, call, hashOrder, rev, made, builderCache>>

composeVars == <<lhs, rhs, lhsLeaves, rhsLeaves, comp>>
applyVars ==
    <<heap, callerState, callerOptic, call, hashOrder, rev, made, builderCache>>

-----------------------------------------------------------------------------
(* Bounds *)

\* longest chain of leaf optics a composition session builds
MaxLenses == 3

-----------------------------------------------------------------------------
(* Python values *)

\* immutable values
IntV(n) == [t |-> "int", v |-> n]
StrV(chars) == [t |-> "str", v |-> chars]
BoolV(b) == [t |-> "bool", v |-> b]
NoneV == [t |-> "none", v |-> 0]
TupleV(items) == [t |-> "tuple", v |-> items]
\* a byte string: its bytes as numbers
BytesV(items) == [t |-> "bytes", v |-> items]
\* a range: its numbers; an iterable type no hook is registered for
RangeV(items) == [t |-> "range", v |-> items]
\* an instance of a class made by collections.namedtuple; the class has
\* as many fields as the instance has items
NTupleV(items) == [t |-> "ntuple", v |-> items]
JustV(item) == [t |-> "just", v |-> item]
NothingV == [t |-> "nothing", v |-> 0]
\* a reference to a mutable object of the heap
RefV(a) == [t |-> "ref", v |-> a]
\* mutable objects: list, dict (its items in insertion order), set (its
\* items in iteration order) and an instance with a __dict__ (its
\* attributes sorted by name)
ListL(items) == [t |-> "list", v |-> items]
SetL(items) == [t |-> "set", v |-> items]
DictL(pairs) == [t |-> "dict", v |-> pairs]
ObjL(attrs) == [t |-> "obj", v |-> attrs]
\* a raised exception
Exc(type, msg) == [t |-> "exc", v |-> <<type, msg>>]
IsExc(x) == x.t = "exc"

IsMutable(x) == x.t \in {"list", "dict", "set", "obj"}

\* isinstance(x, tuple): a named tuple is a tuple
IsTuple(x) == x.t \in {"tuple", "ntuple"}

\* the world an evaluation runs in: the heap, the value iterator of
\* iterate, the trace of the calls made and the builder cache of the
\* recursive traversal
World(h, it, cache) == [heap |-> h, it |-> it, log |-> <<>>, cache |-> cache]

\* the outcome of an evaluation step: a value (or exception) and the world
Out(r, w) == [r |-> r, w |-> w]

\* an outcome handed to the step that follows it; an exception raised
\* ends the evaluation
Then(out, K(_)) == IF IsExc(out.r) THEN out ELSE K(out)

\* a value handed to the step that follows it; a value that is an
\* exception is raised in the world w
Try(value, w, K(_)) == IF IsExc(value) THEN Out(value, w) ELSE K(value)

\* a value handed to the steps that use it
Bind(value, K(_)) == K(value)

Logged(w, name, arg) == [w EXCEPT !.log = Append(@, <<name, arg>>)]

\* a new object
Alloc(w, obj) ==
    Out(RefV(Len(w.heap) + 1), [w EXCEPT !.heap = Append(@, obj)])

\* the number a bool or an int is
Num(x) == IF x.t = "bool" THEN (IF x.v THEN 1 ELSE 0) ELSE x.v

\* == of two literals: a bool is the int it stands for, a named tuple
\* equals the tuple of its items, dicts and sets compare without regard
\* to order
RECURSIVE LitEq(_, _)
LitEq(a, b) ==
    IF a.t \in {"int", "bool"} /\ b.t \in {"int", "bool"} THEN Num(a) = Num(b)
    ELSE IF IsTuple(a) /\ IsTuple(b)
    THEN /\ Len(a.v) = Len(b.v)
         /\ \A i \in 1..Len(a.v) : LitEq(a.v[i], b.v[i])
    ELSE IF a.t # b.t THEN FALSE
    ELSE IF a.t = "list"
    THEN /\ Len(a.v) = Len(b.v)
         /\ \A i \in 1..Len(a.v) : LitEq(a.v[i], b.v[i])
    ELSE IF a.t = "set"
    THEN /\ Len(a.v) = Len(b.v)
         /\ \A i \in 1..Len(a.v) : \E j \in 1..Len(b.v) :
                LitEq(a.v[i], b.v[j])
    ELSE IF a.t = "dict"
    THEN /\ Len(a.v) = Len(b.v)
         /\ \A i \in 1..Len(a.v) : \E j \in 1..Len(b.v) :
                a.v[i][1] = b.v[j][1] /\ LitEq(a.v[i][2], b.v[j][2])
    ELSE IF a.t = "obj"
    THEN /\ Len(a.v) = Len(b.v)
         /\ \A i \in 1..Len(a.v) :
                a.v[i][1] = b.v[i][1] /\ LitEq(a.v[i][2], b.v[i][2])
    ELSE IF a.t = "just"
    THEN LitEq(a.v, b.v)
    ELSE a = b

\* hash(x) of a hashable literal, as far as the iteration order of a set
\* depends on it: the number itself for an int or a bool
py_hash(x) ==
    CASE x.t \in {"int", "bool"} -> Num(x)
      [] x.t = "none" -> 50
      [] x.t = "str" -> 60 + Len(x.v)
      [] x.t = "bytes" -> 70 + Len(x.v)
      [] OTHER -> 80 + Len(x.v)

\* a set iterates item a before item b
HashBefore(a, b) ==
    IF hashOrder = "ascending" THEN py_hash(a) < py_hash(b)
    ELSE py_hash(a) > py_hash(b)

\* set.add(x) on the items of a set in iteration order: an item equal to
\* x is kept; x goes where its hash puts it, after the items it
\* collides with
set_add(items, x) ==
    IF \E i \in 1..Len(items) : LitEq(items[i], x) THEN items
    ELSE IF \E i \in 1..Len(items) : HashBefore(x, items[i])
    THEN LET i == CHOOSE i \in 1..Len(items) :
                    /\ HashBefore(x, items[i])
                    /\ \A j \in 1..(i - 1) : ~HashBefore(x, items[j])
         IN  SubSeq(items, 1, i - 1) \o <<x>> \o SubSeq(items, i, Len(items))
    ELSE Append(items, x)

\* set(items), the items being hashable: its items in iteration order
RECURSIVE set_update(_, _)
set_update(acc, items) ==
    IF items = <<>> THEN acc
    ELSE set_update(set_add(acc, Head(items)), Tail(items))
set_of(items) == set_update(<<>>, items)

\* a literal (a value with its containers in line) built in the heap,
\* children first
RECURSIVE Build(_, _)
RECURSIVE BuildSeq(_, _)
RECURSIVE BuildPairs(_, _)
Build(lit, h) ==
    IF lit.t = "list"
    THEN LET c == BuildSeq(lit.v, h)
         IN  [r |-> RefV(Len(c.h) + 1), h |-> Append(c.h, ListL(c.r))]
    ELSE IF lit.t = "set"
    THEN [r |-> RefV(Len(h) + 1), h |-> Append(h, SetL(set_of(lit.v)))]
    ELSE IF lit.t \in {"dict", "obj"}
    THEN LET c == BuildPairs(lit.v, h)
         IN  [r |-> RefV(Len(c.h) + 1),
              h |-> Append(c.h, [t |-> lit.t, v |-> c.r])]
    ELSE IF IsTuple(lit)
    THEN LET c == BuildSeq(lit.v, h)
         IN  [r |-> [t |-> lit.t, v |-> c.r], h |-> c.h]
    ELSE IF lit.t = "just"
    THEN LET c == Build(lit.v, h)
         IN  [r |-> JustV(c.r), h |-> c.h]
    ELSE [r |-> lit, h |-> h]
BuildSeq(lits, h) ==
    IF lits = <<>> THEN [r |-> <<>>, h |-> h]
    ELSE LET first == Build(Head(lits), h)
             others == BuildSeq(Tail(lits), first.h)
         IN  [r |-> <<first.r>> \o others.r, h |-> others.h]
BuildPairs(pairs, h) ==
    IF pairs = <<>> THEN [r |-> <<>>, h |-> h]
    ELSE LET first == Build(Head(pairs)[2], h)
             others == BuildPairs(Tail(pairs), first.h)
         IN  [r |-> << <<Head(pairs)[1], first.r>> >> \o others.r,
              h |-> others.h]

\* the literal of a value: the value with every reference resolved
RECURSIVE Deep(_, _)
Deep(h, x) ==
    IF x.t = "ref"
    THEN LET o == h[x.v]
         IN  IF o.t \in {"list", "set"}
             THEN [t |-> o.t, v |-> [i \in 1..Len(o.v) |-> Deep(h, o.v[i])]]
             ELSE IF o.t \in {"dict", "obj"}
             THEN [t |-> o.t,
                   v |-> [i \in 1..Len(o.v) |->
                            <<o.v[i][1], Deep(h, o.v[i][2])>>]]
             ELSE o
    ELSE IF IsTuple(x)
    THEN [t |-> x.t, v |-> [i \in 1..Len(x.v) |-> Deep(h, x.v[i])]]
    ELSE IF x.t = "just"
    THEN JustV(Deep(h, x.v))
    ELSE x

\* == of two values of one heap
PyEq(h, a, b) == LitEq(Deep(h, a), Deep(h, b))

\* bool(x)
Truthy(h, x) ==
    CASE x.t = "int" -> x.v # 0
      [] x.t = "bool" -> x.v
      [] x.t = "none" -> FALSE
      [] x.t \in {"str", "bytes", "range", "tuple", "ntuple"} -> Len(x.v) > 0
      [] x.t = "ref" ->
            IF h[x.v].t = "obj" THEN TRUE ELSE Len(h[x.v].v) > 0
      [] OTHER -> TRUE

\* hash(x) succeeds: mutable containers and instances of a class that
\* defines __eq__ (Just among them) are unhashable, a tuple is hashable
\* when its items are
RECURSIVE Hashable(_)
Hashable(x) ==
    IF x.t = "ref" THEN FALSE
    ELSE IF IsTuple(x) THEN \A i \in 1..Len(x.v) : Hashable(x.v[i])
    ELSE IF x.t \in {"just", "nothing"} THEN FALSE
    ELSE TRUE

\* the exception items[key] raises on a sequence type, None when it
\* raises none
IndexCheck(items, key) ==
    IF key.t # "int" THEN Exc("TypeError", "indices must be integers")
    ELSE LET i == IF key.v < 0 THEN key.v + Len(items) ELSE key.v
         IN  IF i < 0 \/ i >= Len(items)
             THEN Exc("IndexError", "index out of range")
             ELSE NoneV

\* the position (from 1) an accepted index refers to
SeqPos(items, key) ==
    (IF key.v < 0 THEN key.v + Len(items) ELSE key.v) + 1

\* items[key] of a sequence type
SeqGet(items, key) ==
    IF IsExc(IndexCheck(items, key)) THEN IndexCheck(items, key)
    ELSE items[SeqPos(items, key)]

\* the position of a key among the items of a dict, 0 when absent
DictFind(pairs, key) ==
    IF \E i \in 1..Len(pairs) : LitEq(pairs[i][1], key)
    THEN CHOOSE i \in 1..Len(pairs) : LitEq(pairs[i][1], key)
    ELSE 0

\* state[key]
getitem(h, x, key) ==
    IF x.t = "ref"
    THEN LET o == h[x.v]
         IN  IF o.t = "list" THEN SeqGet(o.v, key)
             ELSE IF o.t = "dict"
             THEN IF ~Hashable(key) THEN Exc("TypeError", "unhashable type")
                  ELSE IF DictFind(o.v, key) = 0 THEN Exc("KeyError", "key")
                  ELSE o.v[DictFind(o.v, key)][2]
             ELSE Exc("TypeError", "not subscriptable")
    ELSE IF IsTuple(x) THEN SeqGet(x.v, key)
    ELSE IF x.t \in {"bytes", "range"}
    THEN IF IsExc(IndexCheck(x.v, key)) THEN IndexCheck(x.v, key)
         ELSE IntV(x.v[SeqPos(x.v, key)])
    ELSE IF x.t = "str"
    THEN IF IsExc(IndexCheck(x.v, key)) THEN IndexCheck(x.v, key)
         ELSE StrV(<<x.v[SeqPos(x.v, key)]>>)
    ELSE Exc("TypeError", "not subscriptable")

\* the position of an attribute among the attributes of an instance
AttrFind(attrs, name) ==
    IF \E i \in 1..Len(attrs) : attrs[i][1] = name
    THEN CHOOSE i \in 1..Len(attrs) : attrs[i][1] = name
    ELSE 0

\* the _fields of the class of a named tuple
FieldNames == <<"x", "y", "z">>
Fields(x) == SubSeq(FieldNames, 1, Len(x.v))

\* the position of a field among the fields of a named tuple, 0 when the
\* class has no such field
FieldFind(x, name) ==
    IF \E i \in 1..Len(Fields(x)) : Fields(x)[i] = name
    THEN CHOOSE i \in 1..Len(Fields(x)) : Fields(x)[i] = name
    ELSE 0

\* getattr(state, name)
getattr(h, x, name) ==
    IF x.t = "ref" /\ h[x.v].t = "obj" /\ AttrFind(h[x.v].v, name) # 0
    THEN h[x.v].v[AttrFind(h[x.v].v, name)][2]
    ELSE IF x.t = "ntuple" /\ FieldFind(x, name) # 0
    THEN x.v[FieldFind(x, name)]
    ELSE Exc("AttributeError", name)

\* a sequence of values handed from one step to the next
Items(items) == [t |-> "items", v |-> items]

\* list(iter(x)): the items of a list, tuple or set, the characters of a
\* str, the bytes of a byte string, the numbers of a range, the keys of a
\* dict, the item of a Just
py_iter(h, x) ==
    CASE x.t = "ref" /\ h[x.v].t \in {"list", "set"} -> Items(h[x.v].v)
      [] x.t = "ref" /\ h[x.v].t = "dict" ->
            Items([i \in 1..Len(h[x.v].v) |-> h[x.v].v[i][1]])
      [] IsTuple(x) -> Items(x.v)
      [] x.t = "str" -> Items([i \in 1..Len(x.v) |-> StrV(<<x.v[i]>>)])
      [] x.t \in {"bytes", "range"} ->
            Items([i \in 1..Len(x.v) |-> IntV(x.v[i])])
      [] x.t = "just" -> Items(<<x.v>>)
      [] x.t = "nothing" -> Items(<<>>)
      [] OTHER -> Exc("TypeError", "object is not iterable")

\* len(x)
py_len(h, x) ==
    CASE x.t = "ref" /\ h[x.v].t \in {"list", "dict", "set"} ->
            IntV(Len(h[x.v].v))
      [] x.t \in {"tuple", "ntuple", "str", "bytes", "range"} ->
            IntV(Len(x.v))
      [] OTHER -> Exc("TypeError", "object has no len()")

\* copy.copy(x): a new object with the same items; an immutable value is
\* its own copy
copy(x, w) ==
    IF x.t = "ref" THEN Alloc(w, w.heap[x.v]) ELSE Out(x, w)

\* x.copy(): the method of list, dict and set
copy_method(x, w) ==
    IF x.t = "ref" /\ w.heap[x.v].t \in {"list", "dict", "set"}
    THEN Alloc(w, w.heap[x.v])
    ELSE Out(Exc("AttributeError", "copy"), w)

\* the items of a dict after d[key] = value
DictSet(pairs, key, value) ==
    IF DictFind(pairs, key) = 0 THEN Append(pairs, <<key, value>>)
    ELSE [pairs EXCEPT ![DictFind(pairs, key)] = <<key, value>>]

\* a sequence without its item at position i
Without(items, i) ==
    SubSeq(items, 1, i - 1) \o SubSeq(items, i + 1, Len(items))

\* x[key] = value, in place
setitem_inplace(x, key, value, w) ==
    IF x.t # "ref" \/ w.heap[x.v].t \in {"obj", "set"}
    THEN Out(Exc("TypeError", "does not support item assignment"), w)
    ELSE LET o == w.heap[x.v]
         IN  IF o.t = "list"
             THEN IF IsExc(IndexCheck(o.v, key))
                  THEN Out(IndexCheck(o.v, key), w)
                  ELSE Out(NoneV, [w EXCEPT !.heap[x.v].v[SeqPos(o.v, key)]
                                                = value])
             ELSE IF ~Hashable(key)
             THEN Out(Exc("TypeError", "unhashable type"), w)
             ELSE Out(NoneV, [w EXCEPT !.heap[x.v].v = DictSet(@, key, value)])

\* del x[key], in place
delitem_inplace(x, key, w) ==
    IF x.t # "ref" \/ w.heap[x.v].t \in {"obj", "set"}
    THEN Out(Exc("TypeError", "does not support item deletion"), w)
    ELSE LET o == w.heap[x.v]
         IN  IF o.t = "list"
             THEN IF IsExc(IndexCheck(o.v, key))
                  THEN Out(IndexCheck(o.v, key), w)
                  ELSE Out(NoneV, [w EXCEPT !.heap[x.v].v =
                                        Without(@, SeqPos(o.v, key))])
             ELSE IF ~Hashable(key)
             THEN Out(Exc("TypeError", "unhashable type"), w)
             ELSE IF DictFind(o.v, key) = 0
             THEN Out(Exc("KeyError", "key"), w)
             ELSE Out(NoneV, [w EXCEPT !.heap[x.v].v =
                                    Without(@, DictFind(o.v, key))])

\* setattr(x, name, value), in place
setattr_inplace(x, name, value, w) ==
    IF x.t # "ref" \/ w.heap[x.v].t # "obj"
    THEN Out(Exc("AttributeError", name), w)
    ELSE LET attrs == w.heap[x.v].v
         IN  IF AttrFind(attrs, name) = 0
             THEN Out(NoneV, [w EXCEPT !.heap[x.v].v =
                                    Append(@, <<name, value>>)])
             ELSE Out(NoneV, [w EXCEPT !.heap[x.v].v[AttrFind(attrs, name)] =
                                    <<name, value>>])

-----------------------------------------------------------------------------
(* hooks/hook_funcs.py *)

\* setitem_immutable that sets the item on the object itself
setitem_default_nocopy(self, key, value, w) ==
    Then(setitem_inplace(self, key, value, w), LAMBDA r : Out(self, r.w))

\* setitem_immutable, the default: copy.copy, then set the item on the copy
setitem_default(self, key, value, w) ==
    Then(copy(self, w), LAMBDA c :
    Then(setitem_inplace(c.r, key, value, c.w), LAMBDA r : Out(c.r, r.w)))

\* the exception storing a value as a byte raises, None when it raises
\* none: a byte is an int in range(0, 256)
ByteCheck(value) ==
    IF value.t \notin {"int", "bool"}
    THEN Exc("TypeError", "cannot be interpreted as an integer")
    ELSE IF Num(value) < 0 \/ Num(value) > 255
    THEN Exc("ValueError", "byte must be in range(0, 256)")
    ELSE NoneV

\* _bytes_setitem_immutable: data = bytearray(self); data[key] = value;
\* bytes(data)
bytes_setitem_immutable(self, key, value) ==
    IF IsExc(IndexCheck(self.v, key)) THEN IndexCheck(self.v, key)
    ELSE IF IsExc(ByteCheck(value)) THEN ByteCheck(value)
    ELSE BytesV([self.v EXCEPT ![SeqPos(self.v, key)] = Num(value)])

\* _str_setitem_immutable: data = list(self); data[key] = value;
\* ''.join(data)
str_setitem_immutable(self, key, value) ==
    IF IsExc(IndexCheck(self.v, key)) THEN IndexCheck(self.v, key)
    ELSE IF value.t # "str" THEN Exc("TypeError", "expected str instance")
    ELSE StrV(SubSeq(self.v, 1, SeqPos(self.v, key) - 1) \o value.v
              \o SubSeq(self.v, SeqPos(self.v, key) + 1, Len(self.v)))

\* _tuple_setitem_immutable: value where the position counted from 0
\* equals the key, the item elsewhere
tuple_setitem_immutable(self, key, value) ==
    TupleV([i \in 1..Len(self.v) |->
                IF LitEq(IntV(i - 1), key) THEN value ELSE self.v[i]])

\* hooks.setitem: setitem_immutable dispatched on the type of self
setitem_immutable(self, key, value, w) ==
    IF self.t = "str" THEN Out(str_setitem_immutable(self, key, value), w)
    ELSE IF self.t = "bytes"
    THEN Out(bytes_setitem_immutable(self, key, value), w)
    ELSE IF IsTuple(self)
    THEN Out(tuple_setitem_immutable(self, key, value), w)
    ELSE setitem_default(self, key, value, w)

\* _tuple_setattr_immutable: value where the field is the name, the item
\* elsewhere, as an instance of type(self); a plain tuple has no _fields
tuple_setattr_immutable(self, name, value) ==
    IF self.t = "tuple" THEN Exc("AttributeError", "_fields")
    ELSE NTupleV([i \in 1..Len(self.v) |->
                    IF Fields(self)[i] = name THEN value ELSE self.v[i]])

\* hooks.setattr: setattr_immutable dispatched on the type of self
setattr_immutable(self, name, value, w) ==
    IF IsTuple(self) THEN Out(tuple_setattr_immutable(self, name, value), w)
    ELSE Then(copy(self, w), LAMBDA c :
         Then(setattr_inplace(c.r, name, value, c.w), LAMBDA r :
         Out(c.r, r.w)))

\* item in state; a Just, which has no __contains__, is iterated
contains(h, state, item) ==
    CASE state.t = "ref" /\ h[state.v].t = "list" ->
            BoolV(\E i \in 1..Len(h[state.v].v) :
                        PyEq(h, h[state.v].v[i], item))
      [] state.t = "ref" /\ h[state.v].t = "dict" ->
            IF ~Hashable(item) THEN Exc("TypeError", "unhashable type")
            ELSE BoolV(DictFind(h[state.v].v, item) # 0)
      [] state.t = "ref" /\ h[state.v].t = "set" ->
            IF ~Hashable(item) THEN Exc("TypeError", "unhashable type")
            ELSE BoolV(\E i \in 1..Len(h[state.v].v) :
                        LitEq(h[state.v].v[i], item))
      [] IsTuple(state) ->
            BoolV(\E i \in 1..Len(state.v) : PyEq(h, state.v[i], item))
      [] state.t = "str" ->
            IF item.t # "str" THEN Exc("TypeError", "requires string")
            ELSE BoolV(\E i \in 0..(Len(state.v) - Len(item.v)) :
                        SubSeq(state.v, i + 1, i + Len(item.v)) = item.v)
      [] state.t = "bytes" ->
            IF item.t = "bytes"
            THEN BoolV(\E i \in 0..(Len(state.v) - Len(item.v)) :
                        SubSeq(state.v, i + 1, i + Len(item.v)) = item.v)
            ELSE IF item.t \notin {"int", "bool"}
            THEN Exc("TypeError", "a bytes-like object is required")
            ELSE IF IsExc(ByteCheck(item)) THEN ByteCheck(item)
            ELSE BoolV(\E i \in 1..Len(state.v) : state.v[i] = Num(item))
      [] state.t = "range" ->
            BoolV(\E i \in 1..Len(state.v) : LitEq(IntV(state.v[i]), item))
      [] state.t = "just" -> BoolV(PyEq(h, state.v, item))
      [] state.t = "nothing" -> BoolV(FALSE)
      [] OTHER -> Exc("TypeError", "argument is not iterable")

\* the items of a sequence that are != item
RECURSIVE Remove(_, _, _)
\* a hook that returns self when there is no override
no_override_skip(hook, self, w) == Out(self, w)

\* the default of contains_add, contains_remove and from_iter for a self
\* that has no _lens_ method of the hook: NotImplementedError
no_override(hook, self, w) == Out(Exc("NotImplementedError", hook), w)

Remove(h, items, item) ==
    IF items = <<>> THEN <<>>
    ELSE (IF PyEq(h, Head(items), item) THEN <<>> ELSE <<Head(items)>>)
         \o Remove(h, Tail(items), item)

\* hooks.contains_add: self + [item], self + (item,), a copy with
\* result[item] = None, self | {item}
contains_add(self, item, w) ==
    CASE self.t = "ref" /\ w.heap[self.v].t = "list" ->
            Alloc(w, ListL(Append(w.heap[self.v].v, item)))
      [] IsTuple(self) -> Out(TupleV(Append(self.v, item)), w)
      [] self.t = "ref" /\ w.heap[self.v].t = "dict" ->
            Then(copy_method(self, w), LAMBDA c :
            Then(setitem_inplace(c.r, item, NoneV, c.w), LAMBDA r :
            Out(c.r, r.w)))
      [] self.t = "ref" /\ w.heap[self.v].t = "set" ->
            IF ~Hashable(item) THEN Out(Exc("TypeError", "unhashable type"), w)
            ELSE Alloc(w, SetL(set_add(w.heap[self.v].v, item)))
      [] OTHER -> no_override("contains_add", self, w)

\* hooks.contains_remove: the items != item, a copy with del
\* result[item], self - {item}
contains_remove(self, item, w) ==
    CASE self.t = "ref" /\ w.heap[self.v].t = "list" ->
            Alloc(w, ListL(Remove(w.heap, w.heap[self.v].v, item)))
      [] IsTuple(self) -> Out(TupleV(Remove(w.heap, self.v, item)), w)
      [] self.t = "ref" /\ w.heap[self.v].t = "dict" ->
            Then(copy_method(self, w), LAMBDA c :
            Then(delitem_inplace(c.r, item, c.w), LAMBDA r : Out(c.r, r.w)))
      [] self.t = "ref" /\ w.heap[self.v].t = "set" ->
            IF ~Hashable(item) THEN Out(Exc("TypeError", "unhashable type"), w)
            ELSE Alloc(w, SetL(Remove(w.heap, w.heap[self.v].v, item)))
      [] OTHER -> no_override("contains_remove", self, w)

\* hooks.to_iter without the registration of dict: a dict by its keys
to_iter_by_keys(h, self) == py_iter(h, self)

\* hooks.to_iter: a dict by its items, anything else by iter
to_iter(h, self) ==
    IF self.t = "ref" /\ h[self.v].t = "dict"
    THEN Items([i \in 1..Len(h[self.v].v) |->
                    TupleV(<<h[self.v].v[i][1], h[self.v].v[i][2]>>)])
    ELSE py_iter(h, self)

\* the items of a dict after update(items): every item is unpacked into
\* a key and a value
RECURSIVE dict_update(_, _, _)
dict_update(h, pairs, items) ==
    IF items = <<>> THEN DictL(pairs)
    ELSE Bind(py_iter(h, Head(items)), LAMBDA kv :
         IF IsExc(kv) THEN kv
         ELSE IF Len(kv.v) # 2
         THEN Exc("ValueError", "update sequence element has length # 2")
         ELSE IF ~Hashable(kv.v[1])
         THEN Exc("TypeError", "unhashable type")
         ELSE dict_update(h, DictSet(pairs, kv.v[1], kv.v[2]), Tail(items)))

\* ''.join(items)
RECURSIVE str_join(_)
str_join(items) ==
    IF items = <<>> THEN StrV(<<>>)
    ELSE IF Head(items).t # "str"
    THEN Exc("TypeError", "expected str instance")
    ELSE Bind(str_join(Tail(items)), LAMBDA others :
         IF IsExc(others) THEN others
         ELSE StrV(Head(items).v \o others.v))

\* bytes(items)
RECURSIVE bytes_of(_)
bytes_of(items) ==
    IF items = <<>> THEN BytesV(<<>>)
    ELSE IF IsExc(ByteCheck(Head(items))) THEN ByteCheck(Head(items))
    ELSE Bind(bytes_of(Tail(items)), LAMBDA others :
         IF IsExc(others) THEN others
         ELSE BytesV(<<Num(Head(items))>> \o others.v))

\* set(items): every item is hashed
set_from_iter(items) ==
    IF \E i \in 1..Len(items) : ~Hashable(items[i])
    THEN Exc("TypeError", "unhashable type")
    ELSE SetL(set_of(items))

\* self._make(items) of a named tuple
namedtuple_make(self, items) ==
    IF Len(items) # Len(self.v)
    THEN Exc("TypeError", "Expected n arguments")
    ELSE NTupleV(items)

\* _maybe_from_iter that returns Nothing whatever the items
maybe_from_iter_nothing(items) == NothingV

\* _maybe_from_iter of maybe.py: Nothing when there is no item, Just of
\* the first otherwise
maybe_from_iter(items) ==
    IF items = <<>> THEN NothingV ELSE JustV(items[1])

\* hooks.from_iter, with the registration of maybe.py; the type of self
\* is dispatched on before the iterable is iterated
from_iter(self, iterable, w) ==
    Bind(py_iter(w.heap, iterable), LAMBDA items :
    CASE self.t = "str" ->
            Try(items, w, LAMBDA i : Out(str_join(i.v), w))
      [] self.t = "bytes" ->
            Try(items, w, LAMBDA i : Out(bytes_of(i.v), w))
      [] self.t = "ref" /\ w.heap[self.v].t = "dict" ->
            Then(copy_method(self, w), LAMBDA c :
            Try(items, c.w, LAMBDA i :
            Try(dict_update(w.heap, <<>>, i.v), c.w, LAMBDA new :
            Out(c.r, [c.w EXCEPT !.heap[c.r.v] = new]))))
      [] self.t = "ref" /\ w.heap[self.v].t = "list" ->
            Try(items, w, LAMBDA i : Alloc(w, ListL(i.v)))
      [] self.t = "ref" /\ w.heap[self.v].t = "set" ->
            Try(items, w, LAMBDA i :
            Try(set_from_iter(i.v), w, LAMBDA new : Alloc(w, new)))
      [] self.t = "tuple" -> Try(items, w, LAMBDA i : Out(TupleV(i.v), w))
      [] self.t = "ntuple" ->
            Try(items, w, LAMBDA i : Out(namedtuple_make(self, i.v), w))
      [] self.t \in {"just", "nothing"} ->
            Try(items, w, LAMBDA i : Out(maybe_from_iter(i.v), w))
      [] OTHER -> no_override("from_iter", self, w))

-----------------------------------------------------------------------------
(* typeclass.py, const.py, identity.py, maybe.py *)

\* the functors of the six operations
Const(item) == [t |-> "Const", v |-> item]
Identity(item) == [t |-> "Identity", v |-> item]

RECURSIVE mappend(_, _, _)

\* the loop of _mappend_tuple over zip(tup, other)
RECURSIVE mappend_zip(_, _, _)
mappend_zip(xs, ys, w) ==
    IF xs = <<>> \/ ys = <<>> THEN Out(Items(<<>>), w)
    ELSE Then(mappend(Head(xs), Head(ys), w), LAMBDA first :
         Then(mappend_zip(Tail(xs), Tail(ys), first.w), LAMBDA others :
         Out(Items(<<first.r>> \o others.r.v), others.w)))

\* _mappend_tuple
mappend_tuple(tup, other, w) ==
    Try(py_len(w.heap, other), w, LAMBDA n :
    IF Len(tup.v) # n.v
    THEN Out(Exc("ValueError", "Cannot mappend tuples of differing lengths"),
             w)
    ELSE Then(mappend_zip(tup.v, py_iter(w.heap, other).v, w), LAMBDA r :
         Out(TupleV(r.r.v), r.w)))

\* _mappend_dict: out = {}; out.update(dct); out.update(other)
mappend_dict(dct, other, w) ==
    Try(to_iter(w.heap, other), w, LAMBDA items :
    Try(dict_update(w.heap, w.heap[dct.v].v, items.v), w, LAMBDA out :
    Alloc(w, out)))

\* typeclass.mappend, dispatched on the type of the first argument; the
\* default is monoid + other, which for Just is Just.__add__ and for
\* Nothing is Nothing.__add__
mappend(monoid, other, w) ==
    CASE monoid.t = "just" ->
            IF other.t = "nothing" THEN Out(monoid, w)
            ELSE IF other.t = "just"
            THEN Then(mappend(monoid.v, other.v, w), LAMBDA r :
                 Out(JustV(r.r), r.w))
            ELSE Out(Exc("AttributeError", "is_nothing"), w)
      [] monoid.t = "nothing" -> Out(other, w)
      [] IsTuple(monoid) -> mappend_tuple(monoid, other, w)
      [] monoid.t = "ref" /\ w.heap[monoid.v].t = "dict" ->
            mappend_dict(monoid, other, w)
      [] monoid.t = "ref" /\ w.heap[monoid.v].t = "list" ->
            IF other.t = "ref" /\ w.heap[other.v].t = "list"
            THEN Alloc(w, ListL(w.heap[monoid.v].v \o w.heap[other.v].v))
            ELSE Out(Exc("TypeError", "can only concatenate list to list"), w)
      [] monoid.t \in {"int", "bool"} ->
            IF other.t \in {"int", "bool"}
            THEN Out(IntV(Num(monoid) + Num(other)), w)
            ELSE Out(Exc("TypeError", "unsupported operand type(s) for +"), w)
      [] monoid.t = "str" ->
            IF other.t = "str" THEN Out(StrV(monoid.v \o other.v), w)
            ELSE Out(Exc("TypeError", "can only concatenate str to str"), w)
      [] monoid.t = "bytes" ->
            IF other.t = "bytes" THEN Out(BytesV(monoid.v \o other.v), w)
            ELSE Out(Exc("TypeError", "can't concat to bytes"), w)
      [] OTHER ->
            Out(Exc("TypeError", "unsupported operand type(s) for +"), w)

RECURSIVE mempty(_, _)

\* the generator of _mempty_tuple: mempty(item) for item in tup
RECURSIVE mempty_items(_, _)
mempty_items(items, w) ==
    IF items = <<>> THEN Out(Items(<<>>), w)
    ELSE Then(mempty(Head(items), w), LAMBDA first :
         Then(mempty_items(Tail(items), first.w), LAMBDA others :
         Out(Items(<<first.r>> \o others.r.v), others.w)))

\* typeclass.mempty, dispatched on the type of its argument; the default
\* is monoid.mempty(), a method no built-in type has
mempty(monoid, w) ==
    CASE monoid.t \in {"just", "nothing"} -> Out(NothingV, w)
      [] IsTuple(monoid) ->
            Then(mempty_items(monoid.v, w), LAMBDA r :
            Out(TupleV(r.r.v), r.w))
      [] monoid.t = "ref" /\ w.heap[monoid.v].t = "dict" ->
            Alloc(w, DictL(<<>>))
      [] monoid.t = "ref" /\ w.heap[monoid.v].t = "list" ->
            Alloc(w, ListL(<<>>))
      [] monoid.t \in {"int", "bool"} -> Out(IntV(0), w)
      [] monoid.t = "str" -> Out(StrV(<<>>), w)
      [] OTHER -> Out(Exc("AttributeError", "mempty"), w)

\* collect_args(n): the collector and the arguments it has been passed
collect_args(n) == [t |-> "collector", v |-> <<>>, n |-> n]

\* arg_collector: the tuple of the arguments once there are n of them,
\* the collector itself before
arg_collector(collector, arg) ==
    IF Len(collector.v) + 1 = collector.n
    THEN TupleV(Append(collector.v, arg))
    ELSE [collector EXCEPT !.v = Append(@, arg)]

\* typeclass.apply whose Const.apply is mappend(self.item, fn.item)
typeclass_apply_swapped(applicative, func, w) ==
    IF applicative.t = "Const"
    THEN Then(mappend(applicative.v, func.v, w), LAMBDA m :
         Out(Const(m.r), m.w))
    ELSE Out(Identity(arg_collector(func.v, applicative.v)), w)

\* typeclass.apply(arg, functor): Const.apply, Identity.apply with the
\* collector as the function inside the functor
typeclass_apply(applicative, func, w) ==
    IF applicative.t = "Const"
    THEN Then(mappend(func.v, applicative.v, w), LAMBDA m :
         Out(Const(m.r), m.w))
    ELSE Out(Identity(arg_collector(func.v, applicative.v)), w)

\* the loop of multiap over args[1:]
RECURSIVE multiap_loop(_, _, _)
multiap_loop(functor, args, w) ==
    IF args = <<>> THEN Out(functor, w)
    ELSE Then(typeclass_apply(Head(args), functor, w), LAMBDA r :
         multiap_loop(r.r, Tail(args), r.w))

\* multiap(collector, *args): fmap of the collector over args[0]
\* (Const.map keeps the item, Identity.map calls the collector), then
\* the loop
multiap(collector, args, w) ==
    IF args = <<>> THEN Out(Exc("IndexError", "tuple index out of range"), w)
    ELSE multiap_loop(IF args[1].t = "Const" THEN Const(args[1].v)
                      ELSE Identity(arg_collector(collector, args[1].v)),
                      Tail(args), w)

-----------------------------------------------------------------------------
(* Optics as data *)

NoArg == "-"

Mk(cls, p, q) == [cls |-> cls, p |-> p, q |-> q]

\* the class statements of optics/base.py, true_lenses.py, traversals.py,
\* prisms.py, setters.py, folds.py, isomorphisms.py: class -> direct bases
Bases(c) ==
    CASE c = "LensLike" -> {}
      [] c = "Fold" -> {"LensLike"}
      [] c = "Setter" -> {"LensLike"}
      [] c = "Getter" -> {"Fold"}
      [] c = "Traversal" -> {"Fold", "Setter"}
      [] c = "Lens" -> {"Getter", "Traversal"}
      [] c = "Review" -> {"LensLike"}
      [] c = "Prism" -> {"Traversal", "Review"}
      [] c = "Isomorphism" -> {"Lens", "Prism"}
      [] c = "Equality" -> {"Isomorphism"}
      [] c = "ComposedLens" -> {"LensLike"}
      [] c = "ErrorIso" -> {"Isomorphism"}
      [] c = "TrivialIso" -> {"Isomorphism"}
      [] c = "ListWrapIso" -> {"Isomorphism"}
      [] c = "ContainsLens" -> {"Lens"}
      [] c = "GetitemLens" -> {"Lens"}
      [] c = "GetattrLens" -> {"Lens"}
      [] c = "ItemLens" -> {"Lens"}
      [] c = "ItemByValueLens" -> {"Lens"}
      [] c = "TupleLens" -> {"Lens"}
      [] c = "PartsLens" -> {"Lens"}
      [] c = "EachTraversal" -> {"Traversal"}
      [] c = "ItemsTraversal" -> {"Traversal"}
      [] c = "RecurTraversal" -> {"Traversal"}
      [] c = "FilteringPrism" -> {"Prism"}
      [] c = "JustPrism" -> {"Prism"}
      [] c = "ForkedSetter" -> {"Setter"}
      [] c = "IterableFold" -> {"Fold"}

\* isinstance(an instance of class c, cls)
RECURSIVE IsInstance(_, _)
IsInstance(c, cls) ==
    \/ c = cls
    \/ \E b \in Bases(c) : IsInstance(b, cls)

\* LensLike._is_kind, overridden by ComposedLens._is_kind
RECURSIVE is_kind(_, _)
is_kind(self, cls) ==
    IF self.cls = "ComposedLens"
    THEN \A i \in 1..Len(self.p) : is_kind(self.p[i], cls)
    ELSE IsInstance(self.cls, cls)

\* KindOrder with Getter listed before Lens
KindOrder_getter_first ==
    << "Equality", "Isomorphism", "Prism", "Review", "Getter",
       "Lens", "Traversal", "Setter", "Fold" >>

\* the list `optics` of LensLike.kind, in its order
KindOrder ==
    << "Equality", "Isomorphism", "Prism", "Review", "Lens",
       "Traversal", "Getter", "Setter", "Fold" >>

\* LensLike.kind: the first class of the list the optic is a kind of,
\* None when there is none; overridden by PartsLens.kind, which answers
\* by the kind of the optic it wraps and returns None when that is
\* neither Traversal nor Fold
RECURSIVE kind(_)
kind(self) ==
    IF self.cls = "PartsLens"
    THEN IF kind(self.p) = "Traversal" THEN "Lens"
         ELSE IF kind(self.p) = "Fold" THEN "Getter"
         ELSE "None"
    ELSE IF \E i \in 1..Len(KindOrder) : is_kind(self, KindOrder[i])
    THEN KindOrder[CHOOSE i \in 1..Len(KindOrder) :
            /\ is_kind(self, KindOrder[i])
            /\ \A j \in 1..(i - 1) : ~is_kind(self, KindOrder[j])]
    ELSE "None"

TrivialIso == Mk("TrivialIso", NoArg, NoArg)

\* filter_lenses that keeps the trivial optic
RECURSIVE filter_lenses_keep_trivial(_)
filter_lenses_keep_trivial(lenses) ==
    IF lenses = <<>> THEN <<>>
    ELSE LET lens == Head(lenses)
             kept == IF lens.cls = "ComposedLens" THEN lens.p ELSE <<lens>>
         IN  kept \o filter_lenses_keep_trivial(Tail(lenses))

\* ComposedLens._filter_lenses
RECURSIVE filter_lenses(_)
filter_lenses(lenses) ==
    IF lenses = <<>> THEN <<>>
    ELSE LET lens == Head(lenses)
             kept == IF lens.cls = "TrivialIso" THEN <<>>
                     ELSE IF lens.cls = "ComposedLens" THEN lens.p
                     ELSE <<lens>>
         IN  kept \o filter_lenses(Tail(lenses))

\* ComposedLens.__init__
ComposedLens(lenses) == Mk("ComposedLens", filter_lenses(lenses), NoArg)

\* the outcome of a call that returns an optic or raises
Returned(o) == [ok |-> TRUE, v |-> o]
Raised(e) == [ok |-> FALSE, v |-> e]

\* ComposedLens.compose without the check of the kind of the result
ComposedLens_compose_unchecked(self, other) ==
    LET result == ComposedLens(self.p \o <<other>>)
    IN  IF Len(result.p) = 0 THEN Returned(TrivialIso)
        ELSE IF Len(result.p) = 1 THEN Returned(result.p[1])
        ELSE Returned(result)

\* ComposedLens.compose
ComposedLens_compose(self, other) ==
    LET result == ComposedLens(self.p \o <<other>>)
    IN  IF Len(result.p) = 0 THEN Returned(TrivialIso)
        ELSE IF Len(result.p) = 1 THEN Returned(result.p[1])
        ELSE IF kind(result) = "None" THEN Raised("RuntimeError")
        ELSE Returned(result)

\* LensLike.compose (__and__), dispatched on the class of self
compose(self, other) ==
    IF self.cls = "ComposedLens"
    THEN ComposedLens_compose(self, other)
    ELSE ComposedLens_compose(ComposedLens(<<self>>), other)

-----------------------------------------------------------------------------
(* The methods of the optics *)

\* the functions a caller passes to an optic or to over, by name, and the
\* bound methods re() passes to the optic it constructs
CallFn(name, a, w) ==
    CASE name = "ident" -> Out(a, w)
      [] name = "inc" ->
            Out(IF a.t \in {"int", "bool"} THEN IntV(Num(a) + 1)
                ELSE Exc("TypeError", "unsupported operand type(s) for +"), w)
      [] name = "neg" ->
            Out(IF a.t \in {"int", "bool"} THEN IntV(0 - Num(a))
                ELSE Exc("TypeError", "bad operand type for unary -"), w)
      [] name = "dec" ->
            Out(IF a.t \in {"int", "bool"} THEN IntV(Num(a) - 1)
                ELSE Exc("TypeError", "unsupported operand type(s) for -"), w)
      [] name = "wrap" -> Out(TupleV(<<a>>), w)
      [] name = "ListWrapIso.forwards" -> Alloc(w, ListL(<<a>>))
      [] name = "ListWrapIso.backwards" ->
            Out(getitem(w.heap, a, IntV(0)), w)
      [] name = "JustPrism.pack" -> Out(JustV(a), w)
      [] name = "const" -> Out(TupleV(<<StrV(<<"k">>), IntV(9)>>), w)
      [] name = "truthy" -> Out(BoolV(Truthy(w.heap, a)), w)
      [] name = "no_foci" -> Out(Items(<<>>), w)
      [] name = "never" -> Out(NothingV, w)
      [] name = "poison" -> Out(Exc("AssertionError", "must not be called"), w)

\* Functorisor(pure, func): mode is the operation whose pure and func
\* lambdas are wrapped, rest the optics whose func Functorisor.update has
\* put in front of func, outermost first
Functorisor(mode, rest) == [mode |-> mode, rest |-> rest]

RECURSIVE Func(_, _, _, _)
RECURSIVE CallF(_, _, _)
RECURSIVE view(_, _, _)
RECURSIVE set(_, _, _, _)
RECURSIVE to_list_of(_, _, _)
RECURSIVE iterate(_, _, _, _)

\* TupleLens.getter: tuple(lens.view(state) for lens in self.lenses)
RECURSIVE TupleLens_getter(_, _, _)
TupleLens_getter(lenses, state, w) ==
    IF lenses = <<>> THEN Out(Items(<<>>), w)
    ELSE Then(view(Head(lenses), state, w), LAMBDA first :
         Then(TupleLens_getter(Tail(lenses), state, first.w), LAMBDA others :
         Out(Items(<<first.r>> \o others.r.v), others.w)))

\* TupleLens.setter: the loop over zip(self.lenses, focus)
RECURSIVE TupleLens_setter(_, _, _, _)
TupleLens_setter(lenses, focus, state, w) ==
    IF lenses = <<>> \/ focus = <<>> THEN Out(state, w)
    ELSE Then(set(Head(lenses), state, Head(focus), w), LAMBDA r :
         TupleLens_setter(Tail(lenses), Tail(focus), r.r, r.w))

\* ItemByValueLens.getter: the first item whose value == self.value
ItemByValueLens_getter(self, state, w) ==
    IF state.t # "ref" \/ w.heap[state.v].t # "dict"
    THEN Exc("AttributeError", "items")
    ELSE LET pairs == w.heap[state.v].v
             hits == {i \in 1..Len(pairs) : PyEq(w.heap, pairs[i][2], self.p)}
         IN  IF hits = {} THEN NoneV
             ELSE LET i == CHOOSE i \in hits : \A j \in hits : i <= j
                  IN  TupleV(<<pairs[i][1], pairs[i][2]>>)

\* the getter method of a Lens or Getter
getter(self, state, w) ==
    CASE self.cls = "GetitemLens" -> Out(getitem(w.heap, state, self.p), w)
      [] self.cls = "GetattrLens" -> Out(getattr(w.heap, state, self.p), w)
      [] self.cls = "ContainsLens" -> Out(contains(w.heap, state, self.p), w)
      [] self.cls = "ItemLens" ->
            Bind(getitem(w.heap, state, self.p), LAMBDA item :
            Out(IF ~IsExc(item) THEN TupleV(<<self.p, item>>)
                ELSE IF item.v[1] = "KeyError" THEN NoneV
                ELSE item, w))
      [] self.cls = "ItemByValueLens" ->
            Out(ItemByValueLens_getter(self, state, w), w)
      [] self.cls = "TupleLens" ->
            Then(TupleLens_getter(self.p, state, w), LAMBDA r :
            Out(TupleV(r.r.v), r.w))
      [] self.cls = "PartsLens" -> to_list_of(self.p, state, w)
      [] self.cls = "Getter" -> CallFn(self.p, state, w)

\* the deletions of ItemByValueLens.setter: del data[key] for every key
\* of state whose value == self.value
RECURSIVE ItemByValueLens_delete(_, _, _, _)
ItemByValueLens_delete(self, pairs, data, w) ==
    IF pairs = <<>> THEN Out(NoneV, w)
    ELSE IF ~PyEq(w.heap, Head(pairs)[2], self.p)
    THEN ItemByValueLens_delete(self, Tail(pairs), data, w)
    ELSE Then(delitem_inplace(data, Head(pairs)[1], w), LAMBDA r :
         ItemByValueLens_delete(self, Tail(pairs), data, r.w))

\* data[focus[0]] = focus[1]
setitem_pair(data, focus, w) ==
    Try(getitem(w.heap, focus, IntV(0)), w, LAMBDA key :
    Try(getitem(w.heap, focus, IntV(1)), w, LAMBDA value :
    Then(setitem_inplace(data, key, value, w), LAMBDA r : Out(data, r.w))))

\* ItemLens.setter that keeps the old key when the key changes
ItemLens_setter_keep(self, state, focus, w) ==
    Then(copy_method(state, w), LAMBDA c :
    IF focus = NoneV
    THEN Then(delitem_inplace(c.r, self.p, c.w), LAMBDA r : Out(c.r, r.w))
    ELSE setitem_pair(c.r, focus, c.w))

\* ItemLens.setter
ItemLens_setter(self, state, focus, w) ==
    Then(copy_method(state, w), LAMBDA c :
    IF focus = NoneV
    THEN Then(delitem_inplace(c.r, self.p, c.w), LAMBDA r : Out(c.r, r.w))
    ELSE Try(getitem(c.w.heap, focus, IntV(0)), c.w, LAMBDA key :
         IF PyEq(c.w.heap, key, self.p) THEN setitem_pair(c.r, focus, c.w)
         ELSE Then(delitem_inplace(c.r, self.p, c.w), LAMBDA r :
              setitem_pair(c.r, focus, r.w))))

\* ItemByValueLens.setter
ItemByValueLens_setter(self, state, focus, w) ==
    Then(copy_method(state, w), LAMBDA c :
    IF c.w.heap[state.v].t # "dict"
    THEN Out(Exc("AttributeError", "items"), c.w)
    ELSE Then(ItemByValueLens_delete(self, c.w.heap[state.v].v, c.r, c.w),
              LAMBDA r :
         IF focus = NoneV THEN Out(c.r, r.w)
         ELSE setitem_pair(c.r, focus, r.w)))

\* ContainsLens.setter
ContainsLens_setter(self, state, focus, w) ==
    Try(contains(w.heap, state, self.p), w, LAMBDA has :
    IF Truthy(w.heap, focus) /\ ~has.v THEN contains_add(state, self.p, w)
    ELSE IF has.v /\ ~Truthy(w.heap, focus)
    THEN contains_remove(state, self.p, w)
    ELSE Out(state, w))

\* PartsLens.setter: self.optic.iterate(old_state, value); iterate checks
\* the kind of the optic before it calls iter(value)
PartsLens_setter(self, old_state, value, w) ==
    IF ~is_kind(self.p, "Setter") THEN iterate(self.p, old_state, <<>>, w)
    ELSE Try(py_iter(w.heap, value), w, LAMBDA items :
         iterate(self.p, old_state, items.v, w))

\* the setter method of a Lens
setter(self, state, focus, w) ==
    CASE self.cls = "GetitemLens" -> setitem_immutable(state, self.p, focus, w)
      [] self.cls = "GetattrLens" -> setattr_immutable(state, self.p, focus, w)
      [] self.cls = "ContainsLens" -> ContainsLens_setter(self, state, focus, w)
      [] self.cls = "ItemLens" -> ItemLens_setter(self, state, focus, w)
      [] self.cls = "ItemByValueLens" ->
            ItemByValueLens_setter(self, state, focus, w)
      [] self.cls = "TupleLens" ->
            Try(py_iter(w.heap, focus), w, LAMBDA items :
            TupleLens_setter(self.p, items.v, state, w))
      [] self.cls = "PartsLens" -> PartsLens_setter(self, state, focus, w)

\* isinstance(state, cls) for the classes a RecurTraversal is built
\* with: a bool is an int, Container is the class with a __dict__
py_isinstance(h, state, cls) ==
    CASE cls = "int" -> state.t \in {"int", "bool"}
      [] cls = "list" -> state.t = "ref" /\ h[state.v].t = "list"
      [] cls = "Container" -> state.t = "ref" /\ h[state.v].t = "obj"
      [] OTHER -> state.t = cls

\* RecurTraversal.can_iter: not a single character, and of a type
\* from_iter is registered for
can_iter(h, state) ==
    IF state.t = "str" /\ Len(state.v) = 1 THEN FALSE
    ELSE \/ state.t \in {"str", "bytes", "tuple", "ntuple", "just", "nothing"}
         \/ state.t = "ref" /\ h[state.v].t \in {"list", "dict", "set"}

\* hasattr(state, "__dict__")
has_dict(h, state) == state.t = "ref" /\ h[state.v].t = "obj"

\* the values of the attributes of sorted(state.__dict__)
AttrValues(h, state) ==
    [i \in 1..Len(h[state.v].v) |-> h[state.v].v[i][2]]

\* RecurTraversal.folder, and its loop over the substates
RECURSIVE RecurTraversal_folder(_, _, _)
RECURSIVE RecurTraversal_folder_each(_, _, _)
RecurTraversal_folder(cls, h, state) ==
    IF py_isinstance(h, state, cls) THEN <<state>>
    ELSE IF can_iter(h, state)
    THEN RecurTraversal_folder_each(cls, h, to_iter(h, state).v)
    ELSE IF has_dict(h, state)
    THEN RecurTraversal_folder_each(cls, h, AttrValues(h, state))
    ELSE <<>>
RecurTraversal_folder_each(cls, h, substates) ==
    IF substates = <<>> THEN <<>>
    ELSE RecurTraversal_folder(cls, h, Head(substates))
         \o RecurTraversal_folder_each(cls, h, Tail(substates))

\* RecurTraversal.can_hash
can_hash(state) == Hashable(state)

\* self._builder_cache.get(state, guard): the position of the key that
\* equals state, 0 for the guard
CacheFind(cache, state) ==
    IF \E i \in 1..Len(cache) : LitEq(cache[i][1], state)
    THEN CHOOSE i \in 1..Len(cache) : LitEq(cache[i][1], state)
    ELSE 0

\* `assert len(values) == n`: the exception it raises, None when it
\* raises none; the collector that is not full has no len()
AssertLen(values, n) ==
    IF values.t # "tuple" THEN Exc("TypeError", "object has no len()")
    ELSE IF Len(values.v) # n THEN Exc("AssertionError", "len(values)")
    ELSE NoneV

\* values[:count] and values[count:]
Take(values, count) ==
    TupleV(SubSeq(values.v, 1,
                  IF count < Len(values.v) THEN count ELSE Len(values.v)))
Drop(values, count) == TupleV(SubSeq(values.v, count + 1, Len(values.v)))

RECURSIVE build_object(_, _, _, _)

\* the loop of build_from_iter and build_dunder_dict over the substates:
\* the new substates and the values left
RECURSIVE build_substates(_, _, _, _)
build_substates(cls, substates, values, w) ==
    IF substates = <<>> THEN Out([t |-> "items", v |-> <<>>, left |-> values], w)
    ELSE Bind(Len(RecurTraversal_folder(cls, w.heap, Head(substates))),
              LAMBDA count :
         IF count = 0
         THEN Then(build_substates(cls, Tail(substates), values, w),
                   LAMBDA others :
              Out([others.r EXCEPT !.v = <<Head(substates)>> \o @], others.w))
         ELSE IF values.t # "tuple"
         THEN Out(Exc("TypeError", "object is not subscriptable"), w)
         ELSE Then(build_object(cls, Head(substates), Take(values, count), w),
                   LAMBDA new :
              Then(build_substates(cls, Tail(substates), Drop(values, count),
                                   new.w), LAMBDA others :
              Out([others.r EXCEPT !.v = <<new.r>> \o @], others.w))))

\* RecurTraversal.build_from_iter
build_from_iter(cls, state, values, w) ==
    Then(build_substates(cls, to_iter(w.heap, state).v, values, w),
         LAMBDA new :
    Try(AssertLen(new.r.left, 0), new.w, LAMBDA ok :
    from_iter(state, TupleV(new.r.v), new.w)))

\* hooks.setattr of the new substates that hold a focus, each on a copy
RECURSIVE setattr_each(_, _, _, _, _)
setattr_each(cls, new_state, attrs, new_substates, w) ==
    IF attrs = <<>> THEN Out(new_state, w)
    ELSE IF RecurTraversal_folder(cls, w.heap, Head(attrs)[2]) = <<>>
    THEN setattr_each(cls, new_state, Tail(attrs), Tail(new_substates), w)
    ELSE Then(setattr_immutable(new_state, Head(attrs)[1],
                                Head(new_substates), w), LAMBDA r :
         setattr_each(cls, r.r, Tail(attrs), Tail(new_substates), r.w))

\* RecurTraversal.build_dunder_dict
build_dunder_dict(cls, state, values, w) ==
    Then(build_substates(cls, AttrValues(w.heap, state), values, w),
         LAMBDA new :
    Then(setattr_each(cls, state, w.heap[state.v].v, new.r.v, new.w),
         LAMBDA new_state :
    Try(AssertLen(new.r.left, 0), new_state.w, LAMBDA ok : new_state)))

\* RecurTraversal.build_object_no_cache
build_object_no_cache(cls, state, values, w) ==
    IF py_isinstance(w.heap, state, cls)
    THEN Try(AssertLen(values, 1), w, LAMBDA ok : Out(values.v[1], w))
    ELSE IF can_iter(w.heap, state) THEN build_from_iter(cls, state, values, w)
    ELSE IF has_dict(w.heap, state)
    THEN build_dunder_dict(cls, state, values, w)
    ELSE Out(state, w)

\* RecurTraversal.build_object: the result for a hashable state is kept
\* in, and taken from, the builder cache
build_object(cls, state, values, w) ==
    IF ~can_hash(state) THEN build_object_no_cache(cls, state, values, w)
    ELSE IF CacheFind(w.cache, state) # 0
    THEN Out(w.cache[CacheFind(w.cache, state)][2], w)
    ELSE Then(build_object_no_cache(cls, state, values, w), LAMBDA result :
         Out(result.r,
             [result.w EXCEPT !.cache = Append(@, <<state, result.r>>)]))

\* RecurTraversal.builder
RecurTraversal_builder(cls, state, values, w) ==
    IF w.cache # <<>> THEN Out(Exc("AssertionError", "_builder_cache"), w)
    ELSE Then(build_object(cls, state, values, w), LAMBDA result :
         Out(result.r, [result.w EXCEPT !.cache = <<>>]))

\* list(self.folder(state)) of a Traversal or Fold
folder(self, state, w) ==
    CASE self.cls = "EachTraversal" -> Out(to_iter(w.heap, state), w)
      [] self.cls = "ItemsTraversal" ->
            Out(IF state.t = "ref" /\ w.heap[state.v].t = "dict"
                THEN to_iter(w.heap, state)
                ELSE Exc("AttributeError", "items"), w)
      [] self.cls = "RecurTraversal" ->
            Out(Items(RecurTraversal_folder(self.p, w.heap, state)), w)
      [] self.cls = "IterableFold" -> Out(py_iter(w.heap, state), w)
      [] self.cls \in {"Traversal", "Fold"} -> CallFn(self.p, state, w)

\* the values of ItemsTraversal.builder that are not None
NotNone(values) == SelectSeq(values, LAMBDA v : v # NoneV)

\* the builder method of a Traversal
builder(self, state, values, w) ==
    CASE self.cls = "EachTraversal" -> from_iter(state, values, w)
      [] self.cls = "ItemsTraversal" ->
            Then(copy_method(state, w), LAMBDA c :
            Try(py_iter(w.heap, values), c.w, LAMBDA items :
            Try(dict_update(w.heap, <<>>, NotNone(items.v)), c.w, LAMBDA new :
            Out(c.r, [c.w EXCEPT !.heap[c.r.v] = new]))))
      [] self.cls = "RecurTraversal" ->
            RecurTraversal_builder(self.p, state, values, w)
      [] self.cls = "Traversal" -> CallFn(self.q, state, w)

\* unpack with a FilteringPrism that lets every state through
unpack_unfiltered(self, state, w) ==
    CASE self.cls = "FilteringPrism" -> Out(JustV(state), w)
      [] self.cls = "JustPrism" -> Out(state, w)
      [] self.cls = "Prism" -> CallFn(self.p, state, w)

\* the unpack method of a Prism
unpack(self, state, w) ==
    CASE self.cls = "FilteringPrism" ->
            Then(CallFn(self.p, state, w), LAMBDA r :
            Out(IF Truthy(r.w.heap, r.r) THEN JustV(state) ELSE NothingV,
                r.w))
      [] self.cls = "JustPrism" -> Out(state, w)
      [] self.cls = "Prism" -> CallFn(self.p, state, w)

\* the pack method of a Prism, the pack function of a Review
pack(self, focus, w) ==
    CASE self.cls = "FilteringPrism" -> Out(focus, w)
      [] self.cls = "JustPrism" -> Out(JustV(focus), w)
      [] self.cls = "Prism" -> CallFn(self.q, focus, w)
      [] self.cls = "Review" -> CallFn(self.p, focus, w)

\* the forwards method of an Isomorphism
forwards(self, state, w) ==
    CASE self.cls = "TrivialIso" -> Out(state, w)
      [] self.cls = "ListWrapIso" -> Alloc(w, ListL(<<state>>))
      [] OTHER -> CallFn(self.p, state, w)

\* the backwards method of an Isomorphism
backwards(self, focus, w) ==
    CASE self.cls = "TrivialIso" -> Out(focus, w)
      [] self.cls = "ListWrapIso" -> Out(getitem(w.heap, focus, IntV(0)), w)
      [] OTHER -> CallFn(self.q, focus, w)

-----------------------------------------------------------------------------
(* The van Laarhoven functions of the optics *)

\* f.pure(state): the pure lambda of the operation
Pure(f, state, w) ==
    CASE f.mode.op = "preview" -> Out(Const(NothingV), w)
      [] f.mode.op = "to_list_of" ->
            Then(Alloc(w, ListL(<<>>)), LAMBDA l : Out(Const(l.r), l.w))
      [] OTHER -> Out(Identity(state), w)

\* the func lambda of iterate that keeps the focus when the iterator is
\* exhausted
iterate_func_keep(a, w) ==
    IF w.it = <<>> THEN Out(Identity(a), w)
    ELSE Out(Identity(Head(w.it)),
             [Logged(w, "next", Deep(w.heap, a)) EXCEPT !.it = Tail(@)])

\* the func lambda of LensLike.iterate: Identity(next(i))
iterate_func(a, w) ==
    IF w.it = <<>> THEN Out(Exc("StopIteration", ""), w)
    ELSE Out(Identity(Head(w.it)),
             [Logged(w, "next", Deep(w.heap, a)) EXCEPT !.it = Tail(@)])

\* the func lambda of the operation
BaseF(mode, a, w) ==
    CASE mode.op = "preview" -> Out(Const(JustV(a)), w)
      [] mode.op = "to_list_of" ->
            Then(Alloc(w, ListL(<<a>>)), LAMBDA l : Out(Const(l.r), l.w))
      [] mode.op = "over" ->
            Then(CallFn(mode.arg, a, Logged(w, "fn", Deep(w.heap, a))),
                 LAMBDA r : Out(Identity(r.r), r.w))
      [] mode.op = "set" -> Out(Identity(mode.arg), w)
      [] mode.op = "iterate" -> iterate_func(a, w)

\* the function typeclass.fmap maps over the functor: a method of the
\* optic, closed over the state
Method(self, method, state, a, w) ==
    CASE method = "setter" -> setter(self, state, a, w)
      [] method = "builder" -> builder(self, state, a, w)
      [] method = "pack" -> pack(self, a, w)
      [] method = "backwards" -> backwards(self, a, w)

\* typeclass.fmap(functor, method): Const.map keeps the item,
\* Identity.map calls the method on it
fmap(functor, self, method, state) ==
    Then(functor, LAMBDA applied :
    IF applied.r.t = "Const" THEN applied
    ELSE Then(Method(self, method, state, applied.r.v,
                     Logged(applied.w, method, self.cls)), LAMBDA r :
         Out(Identity(r.r), r.w)))

\* `foci == []` that is never true
NoFoci_never(foci) == FALSE

\* the test `foci == []` of Fold.func and Traversal.func
NoFoci(foci) == foci = <<>>

\* map(f, foci) unpacked into the arguments of multiap: f is called on
\* the foci in order, and a StopIteration raised by f ends the arguments
RECURSIVE MapF(_, _, _)
MapF(f, foci, w) ==
    IF foci = <<>> THEN Out(Items(<<>>), w)
    ELSE Bind(CallF(f, Head(foci), w), LAMBDA first :
         IF IsExc(first.r)
         THEN IF first.r.v[1] = "StopIteration"
              THEN Out(Items(<<>>), first.w)
              ELSE first
         ELSE Then(MapF(f, Tail(foci), first.w), LAMBDA others :
              Out(Items(<<first.r>> \o others.r.v), others.w)))

\* Fold.func and IterableFold.func
Fold_func(self, f, state, w) ==
    Then(folder(self, state, Logged(w, "folder", self.cls)), LAMBDA foci :
    IF NoFoci(foci.r.v) THEN Pure(f, state, foci.w)
    ELSE Then(MapF(f, foci.r.v, foci.w), LAMBDA args :
         multiap(collect_args(Len(foci.r.v)), args.r.v, args.w)))

\* Traversal.func
Traversal_func(self, f, state, w) ==
    Then(folder(self, state, Logged(w, "folder", self.cls)), LAMBDA foci :
    IF NoFoci(foci.r.v) THEN Pure(f, state, foci.w)
    ELSE Then(MapF(f, foci.r.v, foci.w), LAMBDA args :
         fmap(multiap(collect_args(Len(foci.r.v)), args.r.v, args.w),
              self, "builder", state)))

\* Getter.func
Getter_func(self, f, state, w) ==
    Then(getter(self, state, Logged(w, "getter", self.cls)), LAMBDA a :
    CallF(f, a.r, a.w))

\* Lens.func
Lens_func(self, f, state, w) ==
    Then(getter(self, state, Logged(w, "getter", self.cls)),
         LAMBDA old_value :
    fmap(CallF(f, old_value.r, old_value.w), self, "setter", state))

\* Prism.func that treats a failed unpack as a focus on the state
Prism_func_no_pure(self, f, state, w) ==
    Then(unpack(self, state, Logged(w, "unpack", self.cls)), LAMBDA result :
    IF result.r.t \notin {"just", "nothing"}
    THEN Out(Exc("AttributeError", "is_nothing"), result.w)
    ELSE fmap(CallF(f, IF result.r.t = "nothing" THEN state ELSE result.r.v,
                    result.w), self, "pack", state))

\* Prism.func
Prism_func(self, f, state, w) ==
    Then(unpack(self, state, Logged(w, "unpack", self.cls)), LAMBDA result :
    IF result.r.t \notin {"just", "nothing"}
    THEN Out(Exc("AttributeError", "is_nothing"), result.w)
    ELSE IF result.r.t = "nothing" THEN Pure(f, state, result.w)
    ELSE fmap(CallF(f, result.r.v, result.w), self, "pack", state))

\* Isomorphism.func
Isomorphism_func(self, f, state, w) ==
    Then(forwards(self, state, Logged(w, "forwards", self.cls)), LAMBDA a :
    fmap(CallF(f, a.r, a.w), self, "backwards", state))

\* ForkedSetter.func: the loop over self.lenses
RECURSIVE ForkedSetter_func(_, _, _, _)
ForkedSetter_func(lenses, f, state, w) ==
    IF lenses = <<>> THEN Out(Identity(state), w)
    ELSE Then(Func(Head(lenses), f, state, w), LAMBDA r :
         ForkedSetter_func(Tail(lenses), f, r.r.v, r.w))

\* self.func(f, state), resolved as Python resolves the method: the
\* class's own func, else the func of the nearest base that defines one
Func(self, f, state, w) ==
    IF self.cls = "ComposedLens"
    THEN IF self.p = <<>> THEN Isomorphism_func(TrivialIso, f, state, w)
         ELSE CallF(Functorisor(f.mode, self.p \o f.rest), state, w)
    ELSE IF self.cls = "ForkedSetter"
    THEN ForkedSetter_func(self.p, f, state, w)
    ELSE IF self.cls = "ErrorIso"
    THEN Out(Exc(self.p, "raised by ErrorIso"), w)
    ELSE IF IsInstance(self.cls, "Isomorphism")
    THEN Isomorphism_func(self, f, state, w)
    ELSE IF IsInstance(self.cls, "Lens") THEN Lens_func(self, f, state, w)
    ELSE IF IsInstance(self.cls, "Prism") THEN Prism_func(self, f, state, w)
    ELSE IF IsInstance(self.cls, "Traversal")
    THEN Traversal_func(self, f, state, w)
    ELSE IF IsInstance(self.cls, "Getter") THEN Getter_func(self, f, state, w)
    ELSE IF IsInstance(self.cls, "Fold") THEN Fold_func(self, f, state, w)
    ELSE Out(Exc("NotImplementedError", "Tried to use unimplemented lens"), w)

\* Functorisor.__call__: the func of the first optic put in front, with
\* the rest as its functorisor; the func lambda when there is none
CallF(f, arg, w) ==
    IF f.rest = <<>> THEN BaseF(f.mode, arg, w)
    ELSE Func(Head(f.rest), Functorisor(f.mode, Tail(f.rest)), arg, w)

\* LensLike.apply followed by unwrap
LensLike_apply(self, mode, state, w) ==
    Then(Func(self, Functorisor(mode, <<>>), state, w), LAMBDA r :
    Out(r.r.v, r.w))

Mode(op, arg) == [op |-> op, arg |-> arg]

\* LensLike.preview
preview(self, state, w) ==
    IF ~is_kind(self, "Fold")
    THEN Out(Exc("TypeError", "Must be an instance of Fold to .preview()"), w)
    ELSE LensLike_apply(self, Mode("preview", NoArg), state, w)

\* LensLike.view that returns None when there is no focus
view_no_guard(self, state, w) ==
    IF ~is_kind(self, "Fold")
    THEN Out(Exc("TypeError", "Must be an instance of Fold to .view()"), w)
    ELSE Then(preview(self, state, w), LAMBDA result :
         IF result.r.t = "nothing" THEN Out(NoneV, result.w)
         ELSE Out(result.r.v, result.w))

\* LensLike.view
view(self, state, w) ==
    IF ~is_kind(self, "Fold")
    THEN Out(Exc("TypeError", "Must be an instance of Fold to .view()"), w)
    ELSE Then(preview(self, state, w), LAMBDA result :
         IF result.r.t = "nothing"
         THEN Out(Exc("ValueError", "No focus to view"), result.w)
         ELSE Out(result.r.v, result.w))

\* LensLike.to_list_of
to_list_of(self, state, w) ==
    IF ~is_kind(self, "Fold")
    THEN Out(Exc("TypeError", "Must be an instance of Fold to .to_list_of()"),
             w)
    ELSE LensLike_apply(self, Mode("to_list_of", NoArg), state, w)

\* LensLike.over without the check of the kind
over_unchecked(self, state, fn, w) ==
    LensLike_apply(self, Mode("over", fn), state, w)

\* LensLike.over
over(self, state, fn, w) ==
    IF ~is_kind(self, "Setter")
    THEN Out(Exc("TypeError", "Must be an instance of Setter to .over()"), w)
    ELSE LensLike_apply(self, Mode("over", fn), state, w)

\* LensLike.set
set(self, state, value, w) ==
    IF ~is_kind(self, "Setter")
    THEN Out(Exc("TypeError", "Must be an instance of Setter to .set()"), w)
    ELSE LensLike_apply(self, Mode("set", value), state, w)

\* LensLike.iterate: i = iter(iterable), the iterator of the caller's
\* iterator restored on return
iterate(self, state, iterable, w) ==
    IF ~is_kind(self, "Setter")
    THEN Out(Exc("TypeError", "Must be an instance of Setter to .iterate()"),
             w)
    ELSE Bind(LensLike_apply(self, Mode("iterate", NoArg), state,
                             [w EXCEPT !.it = iterable]), LAMBDA r :
         Out(r.r, [r.w EXCEPT !.it = w.it]))

-----------------------------------------------------------------------------
(* The composition session *)

\* one optic of every kind of the lattice, the trivial optic and an
\* empty composition
IterableFold == Mk("IterableFold", NoArg, NoArg)
ForkedSetter(lenses) == Mk("ForkedSetter", lenses, NoArg)
Getter(fn) == Mk("Getter", fn, NoArg)
EachTraversal == Mk("EachTraversal", NoArg, NoArg)
Review(fn) == Mk("Review", fn, NoArg)
FilteringPrism(predicate) == Mk("FilteringPrism", predicate, NoArg)
Isomorphism(fw, bw) == Mk("Isomorphism", fw, bw)
Equality(fw, bw) == Mk("Equality", fw, bw)
GetitemLens(key) == Mk("GetitemLens", key, NoArg)
GetattrLens(name) == Mk("GetattrLens", name, NoArg)
ContainsLens(item) == Mk("ContainsLens", item, NoArg)
ItemLens(key) == Mk("ItemLens", key, NoArg)
ItemByValueLens(value) == Mk("ItemByValueLens", value, NoArg)
TupleLens(lenses) == Mk("TupleLens", lenses, NoArg)

PartsLens(optic) == Mk("PartsLens", optic, NoArg)

\* TupleLens.__init__: TypeError when a component is not of kind Lens
TupleLens_init(lenses) ==
    IF \E i \in 1..Len(lenses) : ~is_kind(lenses[i], "Lens")
    THEN Raised("TypeError")
    ELSE Returned(TupleLens(lenses))

\* no TupleLens constructed
NoMade == [done |-> FALSE, lenses |-> <<>>, r |-> Returned(TrivialIso)]
ItemsTraversal == Mk("ItemsTraversal", NoArg, NoArg)
RecurTraversal(cls) == Mk("RecurTraversal", cls, NoArg)
JustPrism == Mk("JustPrism", NoArg, NoArg)
ListWrapIso == Mk("ListWrapIso", NoArg, NoArg)
Fold(fn) == Mk("Fold", fn, NoArg)
Traversal(fn, gn) == Mk("Traversal", fn, gn)
Prism(fn, gn) == Mk("Prism", fn, gn)

ErrorIso(exception) == Mk("ErrorIso", exception, NoArg)

\* self.forwards, self.backwards and self.pack as re() reads them: the
\* function the optic was constructed with, or the method of its class
Attr(self, name) ==
    CASE self.cls = "TrivialIso" -> "ident"
      [] self.cls = "ListWrapIso" -> "ListWrapIso." \o name
      [] self.cls = "JustPrism" -> "JustPrism.pack"
      [] self.cls = "FilteringPrism" -> "ident"
      [] self.cls = "Prism" -> self.q
      [] self.cls = "Review" -> self.p
      [] name = "forwards" -> self.p
      [] name = "backwards" -> self.q

\* Isomorphism.re
Isomorphism_re(self) ==
    Isomorphism(Attr(self, "backwards"), Attr(self, "forwards"))

\* Review.re that refuses as LensLike.re does
Review_re_refused(self) == Raised("TypeError")

\* Review.re
Review_re(self) == Returned(Getter(Attr(self, "pack")))

\* the first component, from the last, whose re() raises; 0 when none does
FirstRaised(parts) ==
    IF \A i \in 1..Len(parts) : parts[i].ok THEN 0
    ELSE CHOOSE i \in 1..Len(parts) :
            /\ ~parts[i].ok
            /\ \A j \in 1..(i - 1) : parts[j].ok

\* self.re(), resolved as Python resolves the method: ComposedLens.re,
\* Isomorphism.re, Review.re (which a Prism inherits), else LensLike.re;
\* an ErrorIso, whose __init__ sets neither forwards nor backwards, fails
\* in Isomorphism.re
RECURSIVE re(_)
re(self) ==
    IF self.cls = "ComposedLens"
    THEN LET n == Len(self.p)
             parts == [i \in 1..n |-> re(self.p[n + 1 - i])]
         IN  IF FirstRaised(parts) # 0 THEN parts[FirstRaised(parts)]
             ELSE Returned(ComposedLens([i \in 1..n |-> parts[i].v]))
    ELSE IF self.cls = "ErrorIso" THEN Raised("AttributeError")
    ELSE IF IsInstance(self.cls, "Isomorphism")
    THEN Returned(Isomorphism_re(self))
    ELSE IF IsInstance(self.cls, "Review") THEN Review_re(self)
    ELSE Raised("TypeError")

\* no re() call yet on the optic o
NoRe(o) == [n |-> 0, of |-> o, on |-> o, r |-> Returned(o)]

Prims ==
    { IterableFold, ForkedSetter(<<>>), Getter("neg"), EachTraversal,
      Review("wrap"), GetitemLens(IntV(0)), FilteringPrism("truthy"),
      Isomorphism("neg", "neg"), Equality("ident", "ident"), TrivialIso }

\* the leaves that are not the trivial optic
NonTrivial(leaves) == SelectSeq(leaves, LAMBDA x : x # TrivialIso)

\* the primitives a session finds already composed in pairs
PairPrims == { EachTraversal, GetitemLens(IntV(0)), FilteringPrism("truthy") }

\* what a session picks as an operand: a primitive optic, an empty
\* composition, or an already composed pair of primitives
Operands ==
    {[o |-> x, leaves |-> NonTrivial(<<x>>)] : x \in Prims}
    \cup {[o |-> ComposedLens(<<>>), leaves |-> <<>>]}
    \cup {[o |-> compose(pq[1], pq[2]).v, leaves |-> pq] :
            pq \in PairPrims \X PairPrims}

NoComp ==
    [done |-> FALSE, a |-> TrivialIso, b |-> TrivialIso, leaves |-> <<>>,
     r |-> Returned(TrivialIso)]

NoCall ==
    [op |-> "none", arg |-> NoArg, r |-> NoneV, log |-> <<>>, pre |-> <<>>]

InitCompose ==
    /\ lhs = TrivialIso
    /\ lhsLeaves = <<>>
    /\ rhs = TrivialIso
    /\ rhsLeaves = <<>>
    /\ comp = NoComp
    /\ heap = <<>>
    /\ callerState = NoneV
    /\ callerOptic = TrivialIso
    /\ call = NoCall
    /\ hashOrder = "ascending"
    /\ rev = NoRe(TrivialIso)
    /\ made = NoMade
    /\ builderCache = <<>>

PickLeft(x) ==
    /\ lhs' = x.o
    /\ lhsLeaves' = x.leaves
    /\ comp' = NoComp
    /\ UNCHANGED <<rhs, rhsLeaves>>
    /\ UNCHANGED applyVars

PickRight(x) ==
    /\ rhs' = x.o
    /\ rhsLeaves' = x.leaves
    /\ comp' = NoComp
    /\ UNCHANGED <<lhs, lhsLeaves>>
    /\ UNCHANGED applyVars

\* lhs = lhs & rhs
ComposeIntoLeft ==
    /\ Len(lhsLeaves) + Len(rhsLeaves) <= MaxLenses
    /\ LET r == compose(lhs, rhs)
       IN  /\ comp' = [done |-> TRUE, a |-> lhs, b |-> rhs,
                       leaves |-> lhsLeaves \o rhsLeaves, r |-> r]
           /\ IF r.ok
              THEN lhs' = r.v /\ lhsLeaves' = lhsLeaves \o rhsLeaves
              ELSE UNCHANGED <<lhs, lhsLeaves>>
    /\ UNCHANGED <<rhs, rhsLeaves>>
    /\ UNCHANGED applyVars

\* rhs = lhs & rhs
ComposeIntoRight ==
    /\ Len(lhsLeaves) + Len(rhsLeaves) <= MaxLenses
    /\ LET r == compose(lhs, rhs)
       IN  /\ comp' = [done |-> TRUE, a |-> lhs, b |-> rhs,
                       leaves |-> lhsLeaves \o rhsLeaves, r |-> r]
           /\ IF r.ok
              THEN rhs' = r.v /\ rhsLeaves' = lhsLeaves \o rhsLeaves
              ELSE UNCHANGED <<rhs, rhsLeaves>>
    /\ UNCHANGED <<lhs, lhsLeaves>>
    /\ UNCHANGED applyVars

NextCompose ==
    \/ \E x \in Operands : PickLeft(x)
    \/ \E x \in Operands : PickRight(x)
    \/ ComposeIntoLeft
    \/ ComposeIntoRight

SpecCompose == InitCompose /\ [][NextCompose]_vars

-----------------------------------------------------------------------------
(* The application session: a caller holds a state and an optic and calls *)
(* the operations of the optic on the state                               *)

\* longest list, tuple and string among the generated states
MaxLen == 2

Atoms == {IntV(1), IntV(2), NoneV}

SeqsOf(S, n) == UNION {[1..k -> S] : k \in 0..n}

\* lists, tuples and strings of atoms
FlatStates ==
    {ListL(s) : s \in SeqsOf(Atoms, MaxLen)}
    \cup {TupleV(s) : s \in SeqsOf(Atoms, MaxLen)}
    \cup {StrV(s) : s \in SeqsOf({"a", "b"}, MaxLen)}

\* lists and tuples of containers
Inner ==
    { ListL(<<>>), ListL(<<IntV(1)>>), ListL(<<IntV(1), IntV(2)>>),
      TupleV(<<IntV(1), NoneV>>) }

NestedStates ==
    {ListL(s) : s \in SeqsOf(Inner, MaxLen)}
    \cup {TupleV(s) : s \in SeqsOf(Inner, MaxLen) \ {<<>>}}

DictStates ==
    { DictL(<<>>),
      DictL(<< <<StrV(<<"a">>), IntV(1)>> >>),
      DictL(<< <<StrV(<<"a">>), IntV(1)>>, <<StrV(<<"b">>), IntV(2)>> >>),
      DictL(<< <<StrV(<<"b">>), IntV(2)>>, <<StrV(<<"a">>), IntV(1)>> >>),
      DictL(<< <<IntV(0), ListL(<<IntV(1)>>)>>, <<IntV(1), IntV(1)>> >>),
      DictL(<< <<IntV(-1), NoneV>>, <<StrV(<<"a">>), ListL(<<>>)>> >>) }

OtherStates ==
    { IntV(1), NoneV, NothingV, JustV(IntV(1)), JustV(ListL(<<IntV(1)>>)),
      ObjL(<< <<"x", IntV(1)>>, <<"y", ListL(<<IntV(1)>>)>> >>) }

\* the states of the examples of the documentation
ExampleStates ==
    { ListL(<<ListL(<<IntV(0), IntV(1)>>), ListL(<<IntV(2), IntV(3)>>)>>),
      TupleV(<<ListL(<<IntV(1), IntV(2), IntV(3)>>), IntV(4),
               ListL(<<IntV(5), IntV(6)>>)>>),
      ListL(<<ListL(<<IntV(0), IntV(0)>>), IntV(0), IntV(0)>>),
      ListL(<<IntV(1), IntV(2), IntV(3)>>),
      ListL(<<IntV(0), IntV(1), StrV(<<>>), StrV(<<"h", "i">>)>>) }

\* sets, byte strings and named tuples
SetStates ==
    { SetL(<<>>), SetL(<<IntV(1)>>), SetL(<<IntV(1), IntV(2)>>),
      SetL(<<IntV(2), NoneV>>), SetL(<<TupleV(<<IntV(1), IntV(2)>>)>>),
      ListL(<<SetL(<<IntV(1), IntV(2)>>), IntV(1)>>) }

BytesStates == {BytesV(s) : s \in SeqsOf({1, 2}, MaxLen)} \cup {BytesV(<<255>>)}

NamedTupleStates ==
    { NTupleV(<<IntV(1)>>), NTupleV(<<IntV(1), IntV(2)>>),
      NTupleV(<<ListL(<<IntV(1)>>), NoneV>>) }

\* range(0) and range(2)
RangeStates == { RangeV(<<>>), RangeV(<<0, 1>>) }

States ==
    FlatStates \cup NestedStates \cup DictStates \cup OtherStates
    \cup ExampleStates \cup SetStates \cup BytesStates \cup NamedTupleStates
    \cup RangeStates

\* the orders a hash table can iterate in: by hash, or against it
HashOrders == {"ascending", "descending"}

\* a set is among the containers of a literal
RECURSIVE HasSet(_)
HasSet(lit) ==
    CASE lit.t = "set" -> TRUE
      [] lit.t \in {"list", "tuple", "ntuple"} ->
            \E i \in 1..Len(lit.v) : HasSet(lit.v[i])
      [] lit.t \in {"dict", "obj"} ->
            \E i \in 1..Len(lit.v) : HasSet(lit.v[i][2])
      [] lit.t = "just" -> HasSet(lit.v)
      [] OTHER -> FALSE

\* self & other of two optics whose kinds are compatible
And(self, other) == compose(self, other).v

LeafOptics ==
    { GetitemLens(IntV(0)), GetitemLens(IntV(1)), GetitemLens(IntV(-1)),
      GetitemLens(IntV(-2)), GetitemLens(StrV(<<"a">>)),
      GetattrLens("y"), ContainsLens(IntV(1)), ItemLens(StrV(<<"a">>)),
      ItemByValueLens(IntV(1)), EachTraversal, ItemsTraversal,
      RecurTraversal("int"), RecurTraversal("list"),
      TupleLens(<<GetitemLens(IntV(0)), GetitemLens(IntV(-1))>>),
      ForkedSetter(<<GetitemLens(IntV(0)), GetitemLens(IntV(1))>>),
      ForkedSetter(<<And(GetitemLens(IntV(0)), GetitemLens(IntV(1))),
                     GetitemLens(IntV(2))>>),
      FilteringPrism("truthy"), JustPrism, Isomorphism("neg", "neg"),
      Isomorphism("inc", "dec"), ErrorIso("Exception"),
      ListWrapIso, TrivialIso, Getter("neg"), IterableFold, Review("wrap"),
      Fold("no_foci"), Traversal("no_foci", "poison"),
      Prism("never", "poison") }

ComposedOptics ==
    { And(EachTraversal, EachTraversal),
      And(And(EachTraversal, EachTraversal), EachTraversal),
      And(EachTraversal, FilteringPrism("truthy")),
      And(EachTraversal, GetitemLens(IntV(0))),
      And(EachTraversal, GetitemLens(IntV(-1))),
      And(GetitemLens(IntV(0)), EachTraversal),
      And(GetitemLens(IntV(0)), GetitemLens(IntV(0))),
      And(And(TupleLens(<<GetitemLens(IntV(0)), GetitemLens(IntV(2))>>),
              EachTraversal), EachTraversal),
      And(EachTraversal, IterableFold),
      And(EachTraversal, Getter("neg")),
      And(EachTraversal, JustPrism),
      And(EachTraversal, ItemsTraversal),
      And(ItemsTraversal, GetitemLens(IntV(0))),
      And(Isomorphism("inc", "dec"), ListWrapIso),
      And(ListWrapIso, GetitemLens(IntV(0))),
      And(EachTraversal, Traversal("no_foci", "poison")),
      And(EachTraversal, Prism("never", "poison")),
      And(Traversal("no_foci", "poison"), EachTraversal),
      And(Prism("never", "poison"), GetitemLens(IntV(0))),
      And(EachTraversal,
          ForkedSetter(<<GetitemLens(IntV(0)), GetitemLens(IntV(1))>>)) }

Optics == LeafOptics \cup ComposedOptics

\* what the caller passes to over, set and iterate
Fns == {"inc", "ident", "const", "poison"}

SetValues ==
    { IntV(9), IntV(2), NoneV, StrV(<<"z">>), BoolV(TRUE), BoolV(FALSE),
      TupleV(<<StrV(<<"k">>), IntV(9)>>),
      TupleV(<<StrV(<<"a">>), IntV(9)>>) }

Iterables ==
    { <<>>, <<IntV(7)>>, <<IntV(7), IntV(8)>>,
      <<IntV(7), IntV(8), IntV(9), IntV(10), IntV(11), IntV(12)>> }

\* what the caller passes to the hooks
HookItems == {IntV(1)}
HookIterables == {TupleV(<<IntV(7), IntV(8)>>)}

Init ==
    /\ \E s \in States :
        /\ hashOrder \in (IF HasSet(s) THEN HashOrders ELSE {"ascending"})
        /\ heap = Build(s, <<>>).h
        /\ callerState = Build(s, <<>>).r
    /\ callerOptic \in Optics
    /\ rev = NoRe(callerOptic)
    /\ made = NoMade
    /\ builderCache = <<>>
    /\ call = NoCall
    /\ lhs = TrivialIso
    /\ lhsLeaves = <<>>
    /\ rhs = TrivialIso
    /\ rhsLeaves = <<>>
    /\ comp = NoComp

\* the world a call of the caller starts in
Start == World(heap, <<>>, builderCache)

\* how many times a caller calls re()
MaxRe == 2

\* optic = optic.re(): the caller replaces its optic by the reversed one;
\* a caller whose re() raised stops
DoRe ==
    /\ call = NoCall
    /\ rev.r.ok
    /\ made.r.ok
    /\ rev.n < MaxRe
    /\ rev' = [n |-> rev.n + 1, of |-> rev.of, on |-> callerOptic,
               r |-> re(callerOptic)]
    /\ callerOptic' = IF re(callerOptic).ok THEN re(callerOptic).v
                      ELSE callerOptic
    /\ UNCHANGED <<heap, callerState, call, hashOrder, made, builderCache>>
    /\ UNCHANGED composeVars

\* the components a caller combines into a TupleLens
TupleComponents ==
    { <<And(GetitemLens(IntV(0)), GetitemLens(IntV(0))), GetitemLens(IntV(1))>>,
      <<GetitemLens(IntV(0)), EachTraversal>>,
      <<IterableFold, GetitemLens(IntV(0))>> }

\* optic = TupleLens(*lenses): the caller replaces its optic by the
\* TupleLens; a caller whose construction raised stops
DoTupleLens(lenses) ==
    /\ call = NoCall
    /\ rev.n = 0
    /\ ~made.done
    /\ made' = [done |-> TRUE, lenses |-> lenses, r |-> TupleLens_init(lenses)]
    /\ callerOptic' = IF TupleLens_init(lenses).ok
                      THEN TupleLens_init(lenses).v ELSE callerOptic
    /\ rev' = NoRe(callerOptic')
    /\ UNCHANGED <<heap, callerState, call, hashOrder, builderCache>>
    /\ UNCHANGED composeVars

\* the caller makes one call on the state it constructed and records the
\* call and its outcome; what the call allocated is dropped with its result
Record(op, arg, out) ==
    /\ call = NoCall
    /\ rev.r.ok
    /\ made.r.ok
    /\ call' = [op |-> op, arg |-> arg, r |-> Deep(out.w.heap, out.r),
                log |-> out.w.log, pre |-> heap]
    /\ heap' = SubSeq(out.w.heap, 1, Len(heap))
    /\ builderCache' = out.w.cache
    /\ UNCHANGED <<callerState, callerOptic, hashOrder, rev, made>>
    /\ UNCHANGED composeVars

DoView == Record("view", NoArg, view(callerOptic, callerState, Start))

DoPreview == Record("preview", NoArg, preview(callerOptic, callerState, Start))

DoToListOf ==
    Record("to_list_of", NoArg, to_list_of(callerOptic, callerState, Start))

DoOver(fn) == Record("over", fn, over(callerOptic, callerState, fn, Start))

DoSet(value) ==
    Record("set", value, set(callerOptic, callerState, value, Start))

DoIterate(iterable) ==
    Record("iterate", iterable,
           iterate(callerOptic, callerState, iterable, Start))

\* hooks.from_iter(state, hooks.to_iter(state))
DoRoundTrip ==
    Record("round_trip", NoArg,
           Try(to_iter(heap, callerState), Start, LAMBDA items :
           from_iter(callerState, TupleV(items.v), Start)))

\* hooks.contains_add(state, item)
DoContainsAdd(item) ==
    Record("contains_add", item, contains_add(callerState, item, Start))

\* hooks.contains_remove(state, item)
DoContainsRemove(item) ==
    Record("contains_remove", item, contains_remove(callerState, item, Start))

\* hooks.from_iter(state, iterable)
DoFromIter(iterable) ==
    Record("from_iter", iterable, from_iter(callerState, iterable, Start))

Next ==
    \/ DoView
    \/ DoPreview
    \/ DoToListOf
    \/ \E fn \in Fns : DoOver(fn)
    \/ \E value \in SetValues : DoSet(value)
    \/ \E iterable \in Iterables : DoIterate(iterable)
    \/ DoRoundTrip
    \/ \E item \in HookItems : DoContainsAdd(item)
    \/ \E item \in HookItems : DoContainsRemove(item)
    \/ \E iterable \in HookIterables : DoFromIter(iterable)
    \/ DoRe
    \/ \E lenses \in TupleComponents : DoTupleLens(lenses)

Spec == Init /\ [][Next]_vars

-----------------------------------------------------------------------------
(* Properties of composition *)

Kinds == {KindOrder[i] : i \in 1..Len(KindOrder)}

\* the kind lattice as the specification draws it: kind -> the kinds it
\* directly refines
LatticeParents(k) ==
    CASE k = "Fold" -> {}
      [] k = "Setter" -> {}
      [] k = "Getter" -> {"Fold"}
      [] k = "Traversal" -> {"Fold", "Setter"}
      [] k = "Review" -> {}
      [] k = "Lens" -> {"Getter", "Traversal"}
      [] k = "Prism" -> {"Traversal", "Review"}
      [] k = "Isomorphism" -> {"Lens", "Prism"}
      [] k = "Equality" -> {"Isomorphism"}

\* the capabilities an optic of kind k has: k and everything above it
RECURSIVE Capabilities(_)
Capabilities(k) ==
    IF k \notin Kinds THEN {}
    ELSE {k} \cup UNION {Capabilities(x) : x \in LatticeParents(k)}

\* the capabilities two optics share
SharedKinds(a, b) == Capabilities(kind(a)) \cap Capabilities(kind(b))

\* C1: composing two optics that share no kind raises at composition
\* time, and compose never returns an optic that has no kind.
C1_ConflictRaisesAtCompose ==
    comp.done =>
        /\ (SharedKinds(comp.a, comp.b) = {}) =>
                (~comp.r.ok /\ comp.r.v = "RuntimeError")
        /\ comp.r.ok => kind(comp.r.v) # "None"

C1_Witness ==
    /\ comp.done
    /\ comp.a = IterableFold
    /\ comp.b = ForkedSetter(<<>>)
    /\ ~comp.r.ok

\* the rule of the kind of a composition: it has exactly the capabilities
\* both operands have, and its kind is the most specific of them
IntersectionRule(a, b, r) ==
    /\ \A k \in Kinds : is_kind(r, k) <=> k \in SharedKinds(a, b)
    /\ kind(r) \in SharedKinds(a, b)
    /\ Capabilities(kind(r)) = SharedKinds(a, b)

\* C2 as stated: the intersection rule holds of every composition.
C2_Original ==
    (comp.done /\ comp.r.ok) => IntersectionRule(comp.a, comp.b, comp.r.v)

\* an optic that focuses the whole state: the trivial optic or an empty
\* composition
IsTrivial(o) == o = TrivialIso \/ o = ComposedLens(<<>>)

\* C2 as amended: the intersection rule holds of every composition of
\* two optics neither of which is trivial (the trivial optic or an empty
\* composition); a trivial operand is elided, so the composition is the
\* other operand itself, with its own kind, and the trivial optic when
\* both are trivial.
C2_KindIsIntersection ==
    (comp.done /\ comp.r.ok) =>
        IF IsTrivial(comp.a) /\ IsTrivial(comp.b) THEN comp.r.v = TrivialIso
        ELSE IF IsTrivial(comp.a) THEN comp.r.v = comp.b
        ELSE IF IsTrivial(comp.b) THEN comp.r.v = comp.a
        ELSE IntersectionRule(comp.a, comp.b, comp.r.v)

C2_Witness ==
    /\ comp.done
    /\ ~IsTrivial(comp.a)
    /\ ~IsTrivial(comp.b)
    /\ kind(comp.a) = "Lens"
    /\ kind(comp.b) = "Prism"
    /\ comp.r.ok
    /\ kind(comp.r.v) = "Traversal"

\* C3: the result of compose is in canonical flat form: the trivial optic
\* when no non-trivial leaf remains, the leaf itself when one remains, and
\* otherwise a ComposedLens listing the non-trivial leaves in order, none
\* of them a ComposedLens or the trivial optic.
C3_CanonicalFlatForm ==
    (comp.done /\ comp.r.ok) =>
        LET r == comp.r.v
            n == Len(comp.leaves)
        IN  /\ n = 0 => r = TrivialIso
            /\ n = 1 => r = comp.leaves[1]
            /\ n >= 2 =>
                /\ r.cls = "ComposedLens"
                /\ r.p = comp.leaves
                /\ \A i \in 1..Len(r.p) :
                        r.p[i].cls \notin {"ComposedLens", "TrivialIso"}

C3_Witness ==
    /\ comp.done
    /\ comp.r.ok
    /\ comp.a.cls = "ComposedLens"
    /\ comp.b.cls = "ComposedLens"
    /\ Len(comp.leaves) = 3
    /\ comp.r.v.p = comp.leaves

-----------------------------------------------------------------------------
(* Properties of the operations *)

\* the literal of the caller's state
StateLit == Deep(heap, callerState)

\* the operations of an optic
Operations == {"view", "preview", "to_list_of", "over", "set", "iterate"}

\* the capability an operation requires
Needs(op) ==
    IF op \in {"view", "preview", "to_list_of"} THEN "Fold" ELSE "Setter"

\* the kind error of an operation
KindError(op) ==
    CASE op = "view" -> Exc("TypeError", "Must be an instance of Fold to .view()")
      [] op = "preview" ->
            Exc("TypeError", "Must be an instance of Fold to .preview()")
      [] op = "to_list_of" ->
            Exc("TypeError", "Must be an instance of Fold to .to_list_of()")
      [] op = "over" ->
            Exc("TypeError", "Must be an instance of Setter to .over()")
      [] op = "set" -> Exc("TypeError", "Must be an instance of Setter to .set()")
      [] op = "iterate" ->
            Exc("TypeError", "Must be an instance of Setter to .iterate()")

\* C4: an operation called on an optic that lacks the capability the
\* operation requires (Fold for view, preview and to_list_of; Setter for
\* over, set and iterate) fails with the kind error, and it does so before
\* anything is called on the state: no getter, folder, unpack, fn or
\* iterator step is in the trace of the call, and the heap is untouched.
C4_KindErrorFirst ==
    (call.op \in Operations
     /\ Needs(call.op) \notin Capabilities(kind(callerOptic))) =>
        /\ call.r = KindError(call.op)
        /\ call.log = <<>>
        /\ heap = call.pre

C4_Witness ==
    /\ call.op = "over"
    /\ callerOptic = IterableFold
    /\ StateLit = ListL(<<IntV(1), IntV(2)>>)
    /\ call.r = KindError("over")

\* the optics a van Laarhoven function runs through, outermost first
Leaves(o) == IF o.cls = "ComposedLens" THEN o.p ELSE <<o>>

\* the foci one optic finds in one state: what its folder yields, what
\* its getter or forwards returns, what its unpack finds
OwnFoci(o, state, w) ==
    IF o.cls = "ErrorIso" THEN Out(Exc(o.p, "raised by ErrorIso"), w)
    ELSE IF IsInstance(o.cls, "Isomorphism")
    THEN LET r == forwards(o, state, w)
         IN  IF IsExc(r.r) THEN r ELSE Out(Items(<<r.r>>), r.w)
    ELSE IF IsInstance(o.cls, "Lens") \/ IsInstance(o.cls, "Getter")
    THEN LET r == getter(o, state, w)
         IN  IF IsExc(r.r) THEN r ELSE Out(Items(<<r.r>>), r.w)
    ELSE IF IsInstance(o.cls, "Prism")
    THEN LET r == unpack(o, state, w)
         IN  IF IsExc(r.r) THEN r
             ELSE IF r.r.t = "just" THEN Out(Items(<<r.r.v>>), r.w)
             ELSE IF r.r.t = "nothing" THEN Out(Items(<<>>), r.w)
             ELSE Out(Exc("AttributeError", "is_nothing"), r.w)
    ELSE folder(o, state, w)

\* the foci of a composition: for each focus of the first optic, in
\* order, the foci of the rest within it, concatenated
RECURSIVE FociOf(_, _, _)
RECURSIVE FociOfEach(_, _, _)
FociOf(optics, state, w) ==
    IF optics = <<>> THEN Out(Items(<<state>>), w)
    ELSE LET own == OwnFoci(Head(optics), state, w)
         IN  IF IsExc(own.r) THEN own
             ELSE FociOfEach(Tail(optics), own.r.v, own.w)
FociOfEach(optics, states, w) ==
    IF states = <<>> THEN Out(Items(<<>>), w)
    ELSE LET first == FociOf(optics, Head(states), w)
         IN  IF IsExc(first.r) THEN first
             ELSE LET others == FociOfEach(optics, Tail(states), first.w)
                  IN  IF IsExc(others.r) THEN others
                      ELSE Out(Items(first.r.v \o others.r.v), others.w)

\* the literals of the foci of an optic in a state of a heap, or the
\* exception finding them raises
FociIn(o, state, h) ==
    LET r == FociOf(Leaves(o), state, World(h, <<>>, <<>>))
    IN  IF IsExc(r.r) THEN r.r
        ELSE Items([i \in 1..Len(r.r.v) |-> Deep(r.w.heap, r.r.v[i])])

\* the foci of the caller's optic in the caller's state
Foci == FociIn(callerOptic, callerState, heap)

NoFocusError == Exc("ValueError", "No focus to view")

\* C5: on a Fold-kind optic, view raises the no-focus error exactly when
\* the optic focuses zero values in the state; with zero foci preview
\* returns Nothing and to_list_of returns the empty list.
C5_NoFocusOnView ==
    (call.op # "none" /\ is_kind(callerOptic, "Fold")) =>
        /\ call.op = "view" =>
                (call.r = NoFocusError <=> (~IsExc(Foci) /\ Foci.v = <<>>))
        /\ (call.op = "preview" /\ ~IsExc(Foci) /\ Foci.v = <<>>) =>
                call.r = NothingV
        /\ (call.op = "to_list_of" /\ ~IsExc(Foci) /\ Foci.v = <<>>) =>
                call.r = ListL(<<>>)

C5_Witness ==
    /\ call.op = "view"
    /\ callerOptic = And(EachTraversal, EachTraversal)
    /\ StateLit = ListL(<<ListL(<<>>), ListL(<<>>)>>)
    /\ call.r = NoFocusError

\* C6: preview on a Fold-kind optic never raises when the foci can be
\* found: it returns Nothing when there are no foci and a Just otherwise,
\* whatever the number and the types of the foci.
C6_PreviewNeverRaises ==
    (call.op = "preview" /\ is_kind(callerOptic, "Fold") /\ ~IsExc(Foci)) =>
        IF Foci.v = <<>> THEN call.r = NothingV ELSE call.r.t = "just"

\* the arguments of the events of one name in a trace, in order
Events(log, name) ==
    LET sel == SelectSeq(log, LAMBDA e : e[1] = name)
    IN  [i \in 1..Len(sel) |-> sel[i][2]]

IsPrefix(a, b) == Len(a) <= Len(b) /\ SubSeq(b, 1, Len(a)) = a

\* to_list_of of an optic on a literal
ListOf(o, lit) ==
    LET b == Build(lit, <<>>)
        r == to_list_of(o, b.r, World(b.h, <<>>, <<>>))
    IN  Deep(r.w.heap, r.r)

\* the compositions of EachTraversal alone
EachChains ==
    { EachTraversal, And(EachTraversal, EachTraversal),
      And(And(EachTraversal, EachTraversal), EachTraversal) }

\* C7: to_list_of returns every focus once, in traversal order: what the
\* folder yields for one optic, and for a composition the concatenation,
\* in the order of the foci of the first optic, of the foci of the rest
\* within each; over calls fn on the foci in that order and iterate sets
\* them in that order, and the values iterate sets are rebuilt in the
\* order they were taken (to_list_of of the result of iterate through a
\* composition of EachTraversal is the values taken, in a state whose
\* containers keep the order of their items: a state without a set).
C7_TraversalOrder ==
    (call.op # "none" /\ is_kind(callerOptic, "Fold") /\ ~IsExc(Foci)) =>
        /\ call.op = "to_list_of" => call.r = ListL(Foci.v)
        /\ (call.op = "over" /\ is_kind(callerOptic, "Setter")) =>
                /\ IsPrefix(Events(call.log, "fn"), Foci.v)
                /\ ~IsExc(call.r) => Events(call.log, "fn") = Foci.v
        /\ (call.op = "iterate" /\ is_kind(callerOptic, "Setter")) =>
                /\ IsPrefix(Events(call.log, "next"), Foci.v)
                /\ ~IsExc(call.r) => Events(call.log, "next") = Foci.v
        /\ (call.op = "iterate" /\ callerOptic \in EachChains
            /\ ~HasSet(StateLit) /\ ~IsExc(call.r)) =>
                ListOf(callerOptic, call.r) =
                    ListL(SubSeq(call.arg, 1, Len(Foci.v)))

C7_Witness ==
    /\ call.op = "to_list_of"
    /\ callerOptic = And(EachTraversal, EachTraversal)
    /\ StateLit = ListL(<<ListL(<<IntV(0), IntV(1)>>),
                          ListL(<<IntV(2), IntV(3)>>)>>)
    /\ call.r = ListL(<<IntV(0), IntV(1), IntV(2), IntV(3)>>)

\* C8: over, set and iterate do not mutate the caller's state: after the
\* call every object the caller's heap held before the call is what it
\* was, whether the call returned or raised.
C8_StateNotMutated ==
    call.op \in {"over", "set", "iterate"} => heap = call.pre

C8_Witness ==
    /\ call.op = "set"
    /\ callerOptic = GetitemLens(IntV(0))
    /\ StateLit = ListL(<<ListL(<<IntV(1)>>), ListL(<<>>)>>)
    /\ call.r = ListL(<<IntV(9), ListL(<<>>)>>)

\* the types from_iter is registered for
Supported(lit) ==
    lit.t \in {"list", "tuple", "ntuple", "dict", "set", "str", "bytes",
               "just", "nothing"}

\* the caller's optic can both get and set, and focuses nothing in the
\* caller's state
ZeroFoci ==
    /\ is_kind(callerOptic, "Setter")
    /\ is_kind(callerOptic, "Fold")
    /\ ~IsExc(Foci)
    /\ Foci.v = <<>>

\* an event of one of the names is in the trace
Invoked(log, names) == \E i \in 1..Len(log) : log[i][1] \in names

\* C9 as stated: with zero foci over and set return the state unchanged
\* without invoking fn, a builder or a pack.
C9_Original ==
    (call.op \in {"over", "set"} /\ ZeroFoci) =>
        /\ call.r = StateLit
        /\ ~Invoked(call.log, {"fn", "builder", "pack"})

\* the optic, or the first optic of the composition, itself finds no
\* focus in the caller's state
FirstIsEmpty ==
    LET own == OwnFoci(Leaves(callerOptic)[1], callerState, Start)
    IN  ~IsExc(own.r) /\ own.r.v = <<>>

\* C9 as amended: with zero foci over and set never invoke fn; when the
\* optic, or the first optic of the composition, is itself the empty
\* traversal or the failed prism, no builder, pack or setter is invoked
\* at all and the state is returned unchanged; in a composition whose
\* first optics do find foci their builders are invoked on the unchanged
\* inner states, and the call returns a state equal to the input unless
\* such a builder has no from_iter for the type of the state, which
\* raises NotImplementedError.
C9_ZeroFociNoOp ==
    (call.op \in {"over", "set"} /\ ZeroFoci) =>
        /\ ~Invoked(call.log, {"fn"})
        /\ IF IsExc(call.r)
           THEN /\ call.r = Exc("NotImplementedError", "from_iter")
                /\ ~FirstIsEmpty
                /\ ~Supported(StateLit)
           ELSE call.r = StateLit
        /\ FirstIsEmpty =>
                ~Invoked(call.log, {"builder", "pack", "setter", "backwards"})

C9_Witness ==
    /\ call.op = "over"
    /\ call.arg = "poison"
    /\ callerOptic = Prism("never", "poison")
    /\ StateLit = ListL(<<IntV(1), IntV(2)>>)
    /\ call.r = StateLit
    /\ call.log = << <<"unpack", "Prism">> >>

\* the values the laws are tried with: a focus of a string is a character
LawValues ==
    IF StateLit.t = "str" THEN {StrV(<<"a">>), StrV(<<"z">>)} ELSE SetValues

\* set(s, view(s)) == s
Law_SetView(o, s, w) ==
    LET v == view(o, s, w)
        r == set(o, s, v.r, v.w)
    IN  ~IsExc(r.r) /\ PyEq(r.w.heap, r.r, s)

\* view(set(s, a)) == a
Law_ViewSet(o, s, a, w) ==
    LET r == set(o, s, a, w)
        v == view(o, r.r, r.w)
    IN  ~IsExc(r.r) /\ ~IsExc(v.r) /\ PyEq(v.w.heap, v.r, a)

\* set(set(s, a), b) == set(s, b)
Law_SetSet(o, s, a, b, w) ==
    LET r1 == set(o, s, a, w)
        r2 == set(o, r1.r, b, r1.w)
        r3 == set(o, s, b, r2.w)
    IN  ~IsExc(r2.r) /\ ~IsExc(r3.r) /\ PyEq(r3.w.heap, r2.r, r3.r)

\* C10: GetitemLens(k) satisfies the three lens laws on a list, tuple,
\* string or mapping for every key k that view accepts for the state.
C10_GetitemLensLaws ==
    (/\ callerOptic.cls = "GetitemLens"
     /\ StateLit.t \in {"list", "tuple", "str", "dict"}
     /\ ~IsExc(view(callerOptic, callerState, Start).r)) =>
        /\ Law_SetView(callerOptic, callerState, Start)
        /\ \A a \in LawValues : Law_ViewSet(callerOptic, callerState, a, Start)
        /\ \A a, b \in LawValues :
                Law_SetSet(callerOptic, callerState, a, b, Start)

\* the boolean foci
Bools == {BoolV(TRUE), BoolV(FALSE)}

\* set(s, a) is of the type of s
Law_SameType(o, s, a, w) ==
    LET r == set(o, s, a, w)
    IN  ~IsExc(r.r) /\ Deep(r.w.heap, r.r).t = Deep(w.heap, s).t

\* C11: ContainsLens(x) satisfies the three lens laws on a list, tuple,
\* mapping or set for boolean foci: set(s, view(s)) == s; view(set(s, b))
\* == b with set(s, b) of the type of s; set(set(s, a), b) == set(s, b).
C11_ContainsLensLaws ==
    (/\ callerOptic.cls = "ContainsLens"
     /\ StateLit.t \in {"list", "tuple", "dict", "set"}) =>
        /\ Law_SetView(callerOptic, callerState, Start)
        /\ \A b \in Bools :
                /\ Law_ViewSet(callerOptic, callerState, b, Start)
                /\ Law_SameType(callerOptic, callerState, b, Start)
        /\ \A a, b \in Bools :
                Law_SetSet(callerOptic, callerState, a, b, Start)

\* the built-in traversals: Each, Items, Recur, Each composed with a
\* filtering prism, and the compositions of Each
BuiltinTraversals ==
    { EachTraversal, ItemsTraversal, RecurTraversal("int"),
      RecurTraversal("list"), And(EachTraversal, FilteringPrism("truthy")) }
    \cup EachChains

\* C12: over(s, identity) == s for every built-in traversal (Each, Items,
\* Recur, Each composed with a filtering prism) and every state the
\* traversal can fold (for Each a list, tuple, named tuple, mapping, set,
\* string, byte string or Maybe, and what they nest): the call returns,
\* and what it returns equals the state.
C12_OverIdentity ==
    (/\ call.op = "over"
     /\ call.arg = "ident"
     /\ callerOptic \in BuiltinTraversals
     /\ Leaves(callerOptic)[1] = EachTraversal => Supported(StateLit)
     /\ ~IsExc(Foci)) =>
        /\ ~IsExc(call.r)
        /\ LitEq(call.r, StateLit)

C12_Witness ==
    /\ call.op = "over"
    /\ call.arg = "ident"
    /\ callerOptic = EachTraversal
    /\ StateLit = DictL(<< <<StrV(<<"a">>), IntV(1)>>,
                           <<StrV(<<"b">>), IntV(2)>> >>)
    /\ Invoked(call.log, {"fn"})
    /\ Invoked(call.log, {"builder"})
    /\ call.r = StateLit

\* Each, Items, and Items composed with the accessor of the key
CountedTraversals ==
    { EachTraversal, ItemsTraversal,
      And(ItemsTraversal, GetitemLens(IntV(0))) }

\* C13: the number of foci is stable across over: for Each over a list,
\* tuple, mapping or set, Items, and Items composed with the key
\* accessor, and every function fn with which over returns,
\* len(to_list_of(over(s, fn))) == len(to_list_of(s)).
C13_FocusCountStable ==
    (/\ call.op = "over"
     /\ callerOptic \in CountedTraversals
     /\ StateLit.t \in {"list", "tuple", "dict", "set"}
     /\ ~IsExc(Foci)
     /\ ~IsExc(call.r)) =>
        /\ ListOf(callerOptic, call.r).t = "list"
        /\ Len(ListOf(callerOptic, call.r).v) = Len(Foci.v)

\* C14: from_iter(s, to_iter(s)) == s for every state s of a supported
\* type (list, tuple, named tuple, mapping, set, string, byte string,
\* Just and Nothing); a mapping is iterated as key-value pairs and
\* rebuilt with the same keys and values.
C14_HookRoundTrip ==
    (call.op = "round_trip" /\ Supported(StateLit)) =>
        /\ ~IsExc(call.r)
        /\ LitEq(call.r, StateLit)
        /\ heap = call.pre

C14_Witness ==
    /\ call.op = "round_trip"
    /\ StateLit = DictL(<< <<IntV(0), ListL(<<IntV(1)>>)>>,
                           <<IntV(1), IntV(1)>> >>)
    /\ call.r = StateLit

\* the types contains_add and contains_remove are registered for
Collection(lit) == lit.t \in {"list", "tuple", "ntuple", "dict", "set"}

NotImplemented(hook) == Exc("NotImplementedError", hook)

\* the hook ContainsLens.setter needs to set the focus, "none" when it
\* needs none or the getter raises
NeededHook(o, s, focus, w) ==
    LET has == contains(w.heap, s, o.p)
    IN  IF IsExc(has) THEN "none"
        ELSE IF Truthy(w.heap, focus) /\ ~has.v THEN "contains_add"
        ELSE IF has.v /\ ~Truthy(w.heap, focus) THEN "contains_remove"
        ELSE "none"

\* C15: contains_add, contains_remove and from_iter have no generic
\* default: called on a state of a type without an override they raise
\* NotImplementedError; ContainsLens.set that has to add or remove the
\* item, and over and set through Each with at least one focus, raise that
\* error on such a state and do not return the state unchanged.
C15_NoGenericDefault ==
    /\ (call.op \in {"contains_add", "contains_remove"}
        /\ ~Collection(StateLit)) => call.r = NotImplemented(call.op)
    /\ (call.op = "from_iter" /\ ~Supported(StateLit)) =>
            call.r = NotImplemented("from_iter")
    /\ (/\ call.op = "set"
        /\ callerOptic.cls = "ContainsLens"
        /\ ~Collection(StateLit)
        /\ NeededHook(callerOptic, callerState, call.arg, Start) # "none") =>
            call.r = NotImplemented(NeededHook(callerOptic, callerState,
                                               call.arg, Start))
    /\ (/\ \/ call.op = "set"
           \/ call.op = "over" /\ call.arg # "poison"
        /\ callerOptic = EachTraversal
        /\ ~Supported(StateLit)
        /\ ~IsExc(Foci)
        /\ Foci.v # <<>>) => call.r = NotImplemented("from_iter")

C15_Witness ==
    /\ call.op = "over"
    /\ call.arg = "inc"
    /\ callerOptic = EachTraversal
    /\ StateLit = RangeV(<<0, 1>>)
    /\ Events(call.log, "fn") = <<IntV(0), IntV(1)>>
    /\ call.r = NotImplemented("from_iter")

\* the world the caller's call started in
Before == World(call.pre, <<>>, <<>>)

\* forward(s) of an optic of Isomorphism kind: the forwards of its leaves,
\* first leaf first
RECURSIVE Forward(_, _, _)
Forward(leaves, s, w) ==
    IF leaves = <<>> THEN Out(s, w)
    ELSE Then(forwards(Head(leaves), s, w), LAMBDA a :
         Forward(Tail(leaves), a.r, a.w))

\* backward(a) of an optic of Isomorphism kind: the backwards of its
\* leaves, last leaf first
RECURSIVE Backward(_, _, _)
Backward(leaves, a, w) ==
    IF leaves = <<>> THEN Out(a, w)
    ELSE Then(backwards(leaves[Len(leaves)], a, w), LAMBDA s :
         Backward(SubSeq(leaves, 1, Len(leaves) - 1), s.r, s.w))

\* the literal of an outcome
Lit(out) == Deep(out.w.heap, out.r)

\* the outcome of the caller's view, set or over had it been made with
\* the optic o
Replay(o) ==
    CASE call.op = "view" -> Lit(view(o, callerState, Before))
      [] call.op = "set" -> Lit(set(o, callerState, call.arg, Before))
      [] call.op = "over" -> Lit(over(o, callerState, call.arg, Before))

\* C16: on every optic O of Isomorphism kind, simple or composed, re()
\* returns an optic; re(O).view(a) is backward(a) of O; re(O).set(b, s) is
\* forward(s) of O for every b that backward accepts; the leaves of the
\* reverse of a composition are the reversed leaves, last first; and
\* re(re(O)) gives on every state what O gives for view, set and over.
C16_ReSwapsRoles ==
    (is_kind(rev.of, "Isomorphism") /\ rev.n >= 1) =>
        /\ rev.r.ok
        /\ (rev.n = 1 /\ call.op = "view") =>
                call.r = Lit(Backward(Leaves(rev.of), callerState, Before))
        /\ (/\ rev.n = 1
            /\ call.op = "set"
            /\ ~IsExc(Backward(Leaves(rev.of), callerState, Before).r)) =>
                call.r = Lit(Forward(Leaves(rev.of), call.arg, Before))
        /\ (rev.n = 1 /\ rev.r.ok) =>
                /\ Len(Leaves(callerOptic)) = Len(Leaves(rev.of))
                /\ \A i \in 1..Len(Leaves(rev.of)) :
                        Returned(Leaves(callerOptic)[i]) =
                            re(Leaves(rev.of)[Len(Leaves(rev.of)) + 1 - i])
        /\ (rev.n = 2 /\ call.op \in {"view", "set", "over"}) =>
                call.r = Replay(rev.of)

\* the optic is an ErrorIso or a composition that holds one
HasErrorIso(o) ==
    \E i \in 1..Len(Leaves(o)) : Leaves(o)[i].cls = "ErrorIso"

\* the last re() raised an exception of the type
ReRaised(type) == ~rev.r.ok /\ rev.r.v = type

FirstValues(values, n) == SubSeq(values, 1, n)

\* the items of a sequence, as a set
Range(seq) == {seq[i] : i \in 1..Len(seq)}

\* C18 as stated: to_list_of of what iterate through Each returns is the
\* first n of the values, n the number of foci, and iterate with fewer
\* values than foci raises.
C18_Original ==
    (call.op = "iterate" /\ is_kind(callerOptic, "Traversal")
     /\ ~IsExc(Foci)) =>
        /\ (callerOptic = EachTraversal /\ ~IsExc(call.r)) =>
                ListOf(callerOptic, call.r) =
                    ListL(FirstValues(call.arg, Len(Foci.v)))
        /\ Len(call.arg) < Len(Foci.v) => IsExc(call.r)

\* C18: iterate that returns has taken one value for each focus, in
\* to_list_of order, and left the surplus; through Each over a state that
\* keeps the order of its items (list, tuple, Just) to_list_of of the
\* result is the first n of the values, n the number of foci; through
\* Each over a set the result holds the first n values as a set, and
\* to_list_of gives them in the order of the set, equal values once. With
\* fewer values than foci iterate raises and returns no state.
C18_IterateInOrder ==
    (call.op = "iterate" /\ is_kind(callerOptic, "Traversal")
     /\ ~IsExc(Foci)) =>
        /\ ~IsExc(call.r) =>
                /\ Events(call.log, "next") = Foci.v
                /\ Len(call.arg) >= Len(Foci.v)
        /\ (callerOptic = EachTraversal /\ ~IsExc(call.r)) =>
                IF HasSet(StateLit)
                THEN Range(ListOf(callerOptic, call.r).v) =
                        Range(FirstValues(call.arg, Len(Foci.v)))
                ELSE ListOf(callerOptic, call.r) =
                        ListL(FirstValues(call.arg, Len(Foci.v)))
        /\ Len(call.arg) < Len(Foci.v) => IsExc(call.r)

C18_Witness ==
    /\ call.op = "iterate"
    /\ callerOptic = EachTraversal
    /\ StateLit = ListL(<<IntV(1), IntV(2)>>)
    /\ Len(call.arg) = 6
    /\ call.r = ListL(<<IntV(7), IntV(8)>>)

\* the mapping has the key
HasKey(lit, k) == \E i \in 1..Len(lit.v) : lit.v[i][1] = k

\* m[k] of a mapping that has the key
Lookup(lit, k) == lit.v[CHOOSE i \in 1..Len(lit.v) : lit.v[i][1] = k][2]

\* the mapping without the key
WithoutKey(lit, k) == DictL(SelectSeq(lit.v, LAMBDA e : e[1] # k))

\* the mapping with the key bound to the value
Bound(lit, k, v) ==
    IF HasKey(lit, k)
    THEN DictL([i \in 1..Len(lit.v) |->
                    IF lit.v[i][1] = k THEN <<k, v>> ELSE lit.v[i]])
    ELSE DictL(Append(lit.v, <<k, v>>))

\* a pair (key, value)
IsPair(x) == x.t = "tuple" /\ Len(x.v) = 2

\* the caller applies ItemLens(k) to a mapping of the literal kind
OnMapping == callerOptic.cls = "ItemLens" /\ StateLit.t = "dict"

\* C19: ItemLens(k) on a mapping m that contains k: view returns the pair
\* (k, m[k]); set(m, None) returns m without k; set(m, (k2, v)) returns m
\* with k2 bound to v and, when k2 != k, without k; the other entries are
\* what they were.
C19_ItemLensPresent ==
    (OnMapping /\ HasKey(StateLit, callerOptic.p)) =>
        /\ call.op = "view" =>
                call.r = TupleV(<<callerOptic.p,
                                  Lookup(StateLit, callerOptic.p)>>)
        /\ (call.op = "set" /\ call.arg = NoneV) =>
                LitEq(call.r, WithoutKey(StateLit, callerOptic.p))
        /\ (call.op = "set" /\ IsPair(call.arg)) =>
                LitEq(call.r, Bound(WithoutKey(StateLit, callerOptic.p),
                                    call.arg.v[1], call.arg.v[2]))

C19_Witness ==
    /\ call.op = "set"
    /\ callerOptic = ItemLens(StrV(<<"a">>))
    /\ StateLit = DictL(<< <<StrV(<<"a">>), IntV(1)>>,
                           <<StrV(<<"b">>), IntV(2)>> >>)
    /\ call.arg = TupleV(<<StrV(<<"k">>), IntV(9)>>)
    /\ call.r = DictL(<< <<StrV(<<"b">>), IntV(2)>>,
                         <<StrV(<<"k">>), IntV(9)>> >>)

\* C20: ItemLens(k) on a mapping m that does not contain k has no focus:
\* preview is Nothing and to_list_of is empty, and set, with None, with a
\* pair or with any other new focus, and over do not fail and return m
\* unchanged.
C20_ItemLensAbsent ==
    (OnMapping /\ ~HasKey(StateLit, callerOptic.p)) =>
        /\ call.op = "preview" => call.r = NothingV
        /\ call.op = "to_list_of" => call.r = ListL(<<>>)
        /\ call.op \in {"set", "over"} =>
                /\ ~IsExc(call.r)
                /\ LitEq(call.r, StateLit)

\* Each composed with the prism of the predicate "truthy"
EachFiltered == And(EachTraversal, FilteringPrism("truthy"))

\* the items of the caller's sequence before the call
OldItems == to_iter(call.pre, callerState).v

\* the positions whose item satisfied the predicate before the call
Kept == {i \in 1..Len(OldItems) : Truthy(call.pre, OldItems[i])}

\* the literal of an item before the call
OldLit(i) == Deep(call.pre, OldItems[i])

\* the items of the kept positions, in order
KeptItems ==
    LET at == SelectSeq([i \in 1..Len(OldItems) |-> i],
                        LAMBDA i : i \in Kept)
    IN  [j \in 1..Len(at) |-> OldLit(at[j])]

\* what over's fn returns for an item
FnOf(i) == Lit(CallFn(call.arg, OldItems[i], Before))

\* the state with the items of the kept positions replaced
Replaced(new(_)) ==
    [StateLit EXCEPT !.v = [i \in 1..Len(OldItems) |->
                                IF i \in Kept THEN new(i) ELSE OldLit(i)]]

\* C21: Each & FilteringPrism(p) over a list, tuple or named tuple:
\* to_list_of is the items that satisfy p, in order; set and over return
\* a sequence of the same type and length whose items at the positions
\* that satisfied p are the new ones, every other item being the old one
\* (over raises what fn raises on an item that satisfies p).
C21_FilteredEach ==
    (callerOptic = EachFiltered
     /\ StateLit.t \in {"list", "tuple", "ntuple"}) =>
        /\ call.op = "to_list_of" => call.r = ListL(KeptItems)
        /\ call.op = "set" =>
                call.r = Replaced(LAMBDA i : call.arg)
        /\ call.op = "over" =>
                IF \E i \in Kept : IsExc(FnOf(i)) THEN IsExc(call.r)
                ELSE call.r = Replaced(FnOf)

C21_Witness ==
    /\ callerOptic = EachFiltered
    /\ call.op = "over"
    /\ call.arg = "inc"
    /\ StateLit = ListL(<<IntV(2), NoneV>>)
    /\ call.r = ListL(<<IntV(3), NoneV>>)

\* the state [0, 1, '', 'hi']
MixedList == ListL(<<IntV(0), IntV(1), StrV(<<>>), StrV(<<"h", "i">>)>>)

\* the caller applies Each & FilteringPrism(truthy) to [0, 1, '', 'hi']
OnMixedList == callerOptic = EachFiltered /\ StateLit = MixedList

\* C22 as stated: to_list_of is [1, 'hi'] and set(state, 2) is
\* [2, 0, 2, ''].
C22_Original ==
    OnMixedList =>
        /\ call.op = "to_list_of" =>
                call.r = ListL(<<IntV(1), StrV(<<"h", "i">>)>>)
        /\ (call.op = "set" /\ call.arg = IntV(2)) =>
                call.r = ListL(<<IntV(2), IntV(0), IntV(2), StrV(<<>>)>>)

\* C22: Each & FilteringPrism(truthy) on [0, 1, '', 'hi']: to_list_of is
\* [1, 'hi'] and set(state, 2) is [0, 2, '', 2], the truthy items
\* replaced where they stand.
C22_FilteredExample ==
    OnMixedList =>
        /\ call.op = "to_list_of" =>
                call.r = ListL(<<IntV(1), StrV(<<"h", "i">>)>>)
        /\ (call.op = "set" /\ call.arg = IntV(2)) =>
                call.r = ListL(<<IntV(0), IntV(2), StrV(<<>>), IntV(2)>>)

C22_Witness ==
    /\ OnMixedList
    /\ call.op = "set"
    /\ call.arg = IntV(2)
    /\ Events(call.log, "unpack") =
            <<"FilteringPrism", "FilteringPrism", "FilteringPrism",
              "FilteringPrism">>
    /\ call.r = ListL(<<IntV(0), IntV(2), StrV(<<>>), IntV(2)>>)

\* the outcome of view(o, s) on the literal of a state
ViewOf(o, lit) ==
    LET b == Build(lit, <<>>)
    IN  Lit(view(o, b.r, World(b.h, <<>>, <<>>)))

\* the outcome of set(o, s, a) on the literal of a state
SetOf(o, lit, a) ==
    LET b == Build(lit, <<>>)
    IN  Lit(set(o, b.r, a, World(b.h, <<>>, <<>>)))

\* (L1.view(s), ..., Ln.view(s)), or the first exception of the views
RECURSIVE ViewEach(_, _)
ViewEach(lenses, lit) ==
    IF lenses = <<>> THEN TupleV(<<>>)
    ELSE IF IsExc(ViewOf(Head(lenses), lit)) THEN ViewOf(Head(lenses), lit)
    ELSE IF IsExc(ViewEach(Tail(lenses), lit)) THEN ViewEach(Tail(lenses), lit)
    ELSE TupleV(<<ViewOf(Head(lenses), lit)>> \o ViewEach(Tail(lenses), lit).v)

\* Ln.set(...L1.set(s, a1)..., an), or the first exception of the sets
RECURSIVE SetEach(_, _, _)
SetEach(lenses, lit, values) ==
    IF lenses = <<>> \/ IsExc(lit) THEN lit
    ELSE SetEach(Tail(lenses), SetOf(Head(lenses), lit, Head(values)),
                 Tail(values))

\* the foci of the components are disjoint in the state: a set through
\* one component leaves what every other component views
Disjoint(lenses, lit, values) ==
    \A i, j \in 1..Len(lenses) :
        i # j => ViewOf(lenses[j], SetOf(lenses[i], lit, values[i])) =
                    ViewOf(lenses[j], lit)

\* the caller calls set of a TupleLens with a tuple of one value for each
\* component
SetsTuple ==
    /\ callerOptic.cls = "TupleLens"
    /\ call.op = "set"
    /\ call.arg.t = "tuple"
    /\ Len(call.arg.v) = Len(callerOptic.p)

\* C23: TupleLens(L1, ..., Ln) raises TypeError at construction when a
\* component is not of kind Lens and returns the optic otherwise; its
\* view is (L1.view(s), ..., Ln.view(s)); its set with (a1, ..., an) is
\* Ln.set(...L1.set(s, a1)..., an), the sets applied left to right, when
\* every component can view s; and view(set(s, t)) == t when the foci of
\* the components are disjoint.
C23_TupleLens ==
    /\ made.done =>
            IF \A i \in 1..Len(made.lenses) : is_kind(made.lenses[i], "Lens")
            THEN /\ made.r = Returned(TupleLens(made.lenses))
                 /\ callerOptic = TupleLens(made.lenses)
            ELSE ~made.r.ok /\ made.r.v = "TypeError"
    /\ (callerOptic.cls = "TupleLens" /\ call.op = "view") =>
            call.r = ViewEach(callerOptic.p, StateLit)
    /\ (SetsTuple /\ ~IsExc(ViewEach(callerOptic.p, StateLit))) =>
            call.r = SetEach(callerOptic.p, StateLit, call.arg.v)
    /\ (SetsTuple /\ ~IsExc(call.r)
        /\ Disjoint(callerOptic.p, StateLit, call.arg.v)) =>
            ViewOf(callerOptic, call.r) = call.arg

-----------------------------------------------------------------------------
(* The builder of RecurTraversal and its cache *)

\* build_object_no_cache that calls itself for the substates, never the
\* cache: the builder the cache is measured against
RECURSIVE Rebuild(_, _, _, _)
RECURSIVE RebuildSubstates(_, _, _, _)
RebuildSubstates(cls, substates, values, w) ==
    IF substates = <<>> THEN Out([t |-> "items", v |-> <<>>, left |-> values], w)
    ELSE Bind(Len(RecurTraversal_folder(cls, w.heap, Head(substates))),
              LAMBDA count :
         IF count = 0
         THEN Then(RebuildSubstates(cls, Tail(substates), values, w),
                   LAMBDA others :
              Out([others.r EXCEPT !.v = <<Head(substates)>> \o @], others.w))
         ELSE Then(Rebuild(cls, Head(substates), Take(values, count), w),
                   LAMBDA new :
              Then(RebuildSubstates(cls, Tail(substates), Drop(values, count),
                                    new.w), LAMBDA others :
              Out([others.r EXCEPT !.v = <<new.r>> \o @], others.w))))
Rebuild(cls, state, values, w) ==
    IF py_isinstance(w.heap, state, cls)
    THEN Try(AssertLen(values, 1), w, LAMBDA ok : Out(values.v[1], w))
    ELSE IF can_iter(w.heap, state)
    THEN Then(RebuildSubstates(cls, to_iter(w.heap, state).v, values, w),
              LAMBDA new :
         Try(AssertLen(new.r.left, 0), new.w, LAMBDA ok :
         from_iter(state, TupleV(new.r.v), new.w)))
    ELSE IF has_dict(w.heap, state)
    THEN Then(RebuildSubstates(cls, AttrValues(w.heap, state), values, w),
              LAMBDA new :
         Then(setattr_each(cls, state, w.heap[state.v].v, new.r.v, new.w),
              LAMBDA new_state :
         Try(AssertLen(new.r.left, 0), new_state.w, LAMBDA ok : new_state)))
    ELSE Out(state, w)

\* the caller's optic is a RecurTraversal and the call one that rebuilds
RecurCall ==
    call.op \in {"over", "set", "iterate"} /\ callerOptic.cls = "RecurTraversal"

\* the foci of the RecurTraversal in the caller's state
RecurFoci == RecurTraversal_folder(callerOptic.p, call.pre, callerState)

\* the value the call has for each focus, in order: fn(focus), the value
\* of set, the next value of the iterable
NewValues ==
    [i \in 1..Len(RecurFoci) |->
        CASE call.op = "over" -> CallFn(call.arg, RecurFoci[i], Before).r
          [] call.op = "set" -> call.arg
          [] call.op = "iterate" ->
                IF i <= Len(call.arg) THEN call.arg[i]
                ELSE Exc("StopIteration", "")]

\* what the call returns with the builder that has no cache
Uncached ==
    IF RecurFoci = <<>> THEN StateLit
    ELSE Lit(Rebuild(callerOptic.p, callerState, TupleV(NewValues), Before))

\* C27: the builder cache of RecurTraversal is transparent: on every
\* state, those with equal sub-states or equal foci at several positions
\* among them, over, set and iterate return what the builder without the
\* cache returns; iterate gives each focus its own value, so that
\* to_list_of of what it returns is the first n of the values
C27_CacheTransparent ==
    (RecurCall /\ \A i \in 1..Len(RecurFoci) : ~IsExc(NewValues[i])) =>
        /\ call.r = Uncached
        /\ (call.op = "iterate" /\ callerOptic.p = "int"
            /\ ~IsExc(call.r)) =>
                ListOf(callerOptic, call.r) =
                    ListL(FirstValues(call.arg, Len(RecurFoci)))

-----------------------------------------------------------------------------
(* The types the hooks return *)

\* the call is one call of hooks.setitem (the setter of GetitemLens)
SetIndexCall == call.op = "set" /\ callerOptic.cls = "GetitemLens"

\* the call is one call of hooks.setattr (the setter of GetattrLens)
SetFieldCall == call.op = "set" /\ callerOptic.cls = "GetattrLens"

\* the call is one call of hooks.from_iter
FromIterCall == call.op \in {"from_iter", "round_trip"}

\* the types the hooks rebuild
HookTypes == {"list", "tuple", "ntuple", "dict", "set", "str", "bytes"}

\* C30: the hooks keep the type of the state: set-index, set-field and
\* from-iterable on a list, tuple, named tuple, mapping, set, string or
\* byte string return a value of the type of the state; set-index on a
\* named tuple returns a named tuple, as set-field and from-iterable do
C30_HooksKeepType ==
    ((SetIndexCall \/ SetFieldCall \/ FromIterCall)
     /\ StateLit.t \in HookTypes /\ ~IsExc(call.r)) =>
        call.r.t = StateLit.t

-----------------------------------------------------------------------------
(* The RecurTraversal session: a caller makes one call after the other on
   one RecurTraversal *)

RecurOptics == {RecurTraversal("int"), RecurTraversal("list")}

RecurStates ==
    { ListL(<<IntV(1), IntV(2)>>),
      TupleV(<<IntV(1), TupleV(<<IntV(2), NoneV>>)>>),
      TupleV(<<IntV(1), BytesV(<<1>>)>>),
      TupleV(<<ListL(<<IntV(1)>>), StrV(<<"a", "b">>)>>) }

InitRecur ==
    /\ \E s \in RecurStates :
        /\ heap = Build(s, <<>>).h
        /\ callerState = Build(s, <<>>).r
    /\ hashOrder = "ascending"
    /\ callerOptic \in RecurOptics
    /\ rev = NoRe(callerOptic)
    /\ made = NoMade
    /\ builderCache = <<>>
    /\ call = NoCall
    /\ lhs = TrivialIso
    /\ lhsLeaves = <<>>
    /\ rhs = TrivialIso
    /\ rhsLeaves = <<>>
    /\ comp = NoComp

\* the caller goes on to its next call, with the same optic and state
DoNextCall ==
    /\ call # NoCall
    /\ call' = NoCall
    /\ UNCHANGED <<heap, callerState, callerOptic, hashOrder, rev, made,
                   builderCache>>
    /\ UNCHANGED composeVars

NextRecur ==
    \/ DoToListOf
    \/ \E fn \in Fns : DoOver(fn)
    \/ \E value \in SetValues : DoSet(value)
    \/ \E iterable \in Iterables : DoIterate(iterable)
    \/ DoNextCall

SpecRecur == InitRecur /\ [][NextRecur]_vars

\* what the call returns on a RecurTraversal that was just constructed
Fresh ==
    CASE call.op = "to_list_of" -> Lit(to_list_of(callerOptic, callerState, Before))
      [] call.op = "over" -> Lit(over(callerOptic, callerState, call.arg, Before))
      [] call.op = "set" -> Lit(set(callerOptic, callerState, call.arg, Before))
      [] call.op = "iterate" ->
            Lit(iterate(callerOptic, callerState, call.arg, Before))

\* C28: a RecurTraversal carries nothing from one call to the next: after
\* every sequence of to_list_of, over, set and iterate on one instance,
\* calls that raised while rebuilding among them, its builder cache is
\* empty and a call returns what it returns on a fresh instance
C28_NoStateBetweenCalls ==
    /\ builderCache = <<>>
    /\ call # NoCall => call.r = Fresh

-----------------------------------------------------------------------------
(* The laws of the typeclasses: a session that draws the arguments of one
   law and evaluates its two sides *)

\* the monoids a law is checked on: the values of one set have one type
MonoidFamilies ==
    { {IntV(0), IntV(1), IntV(2)},
      {ListL(<<>>), ListL(<<IntV(1)>>), ListL(<<IntV(2), IntV(1)>>)},
      {TupleV(<<>>), TupleV(<<IntV(1)>>), TupleV(<<IntV(2)>>),
       TupleV(<<IntV(1), IntV(2)>>)},
      {StrV(<<>>), StrV(<<"a">>), StrV(<<"b", "a">>)},
      {DictL(<<>>), DictL(<< <<StrV(<<"a">>), IntV(1)>> >>),
       DictL(<< <<StrV(<<"a">>), IntV(2)>>, <<StrV(<<"b">>), IntV(1)>> >>)},
      {NothingV, JustV(IntV(1)), JustV(IntV(2))},
      {NothingV, JustV(ListL(<<>>)), JustV(ListL(<<IntV(1)>>))},
      {NothingV, JustV(NothingV), JustV(JustV(StrV(<<"a">>)))},
      {NothingV, JustV(TupleV(<<IntV(1)>>)),
       JustV(TupleV(<<IntV(1), IntV(2)>>))} }

\* m1, m2, m3 = monoids[0], monoids[1], monoids[2]
MonoidTriples ==
    UNION { {TupleV(<<a, b, c>>) : a \in F, b \in F, c \in F} :
            F \in MonoidFamilies }

InitLaws ==
    /\ \E s \in MonoidTriples :
        /\ heap = Build(s, <<>>).h
        /\ callerState = Build(s, <<>>).r
    /\ hashOrder = "ascending"
    /\ callerOptic = TrivialIso
    /\ rev = NoRe(TrivialIso)
    /\ made = NoMade
    /\ builderCache = <<>>
    /\ call = NoCall
    /\ lhs = TrivialIso
    /\ lhsLeaves = <<>>
    /\ rhs = TrivialIso
    /\ rhsLeaves = <<>>
    /\ comp = NoComp

\* the arguments drawn
m1 == callerState.v[1]
m2 == callerState.v[2]
m3 == callerState.v[3]

\* assert left == right: the left side is evaluated first; the literals
\* of the two sides are recorded, an exception being the literal of the
\* side that raised it
RecordLaw(op, arg, left, Right(_)) ==
    /\ call = NoCall
    /\ call' = [op |-> op, arg |-> arg,
                r |-> TupleV(<<Deep(left.w.heap, left.r),
                               Deep(Right(left.w).w.heap, Right(left.w).r)>>),
                log |-> <<>>, pre |-> heap]
    /\ UNCHANGED <<heap, callerState, callerOptic, hashOrder, rev, made,
                   builderCache>>
    /\ UNCHANGED composeVars

\* add(add(m1, m2), m3) == add(m1, add(m2, m3))
DoAssociativity ==
    RecordLaw("associativity", NoArg,
              Then(mappend(m1, m2, Start), LAMBDA ab :
                   mappend(ab.r, m3, ab.w)),
              LAMBDA w : Then(mappend(m2, m3, w), LAMBDA bc :
                              mappend(m1, bc.r, bc.w)))

\* mappend(mempty(monoid), monoid) == monoid
DoLeftIdentity ==
    RecordLaw("left_identity", NoArg,
              Then(mempty(m1, Start), LAMBDA e : mappend(e.r, m1, e.w)),
              LAMBDA w : Out(m1, w))

\* mappend(monoid, mempty(monoid)) == monoid
DoRightIdentity ==
    RecordLaw("right_identity", NoArg,
              Then(mempty(m1, Start), LAMBDA e : mappend(m1, e.r, e.w)),
              LAMBDA w : Out(m1, w))

NextLaws ==
    \/ DoAssociativity
    \/ DoLeftIdentity
    \/ DoRightIdentity

SpecLaws == InitLaws /\ [][NextLaws]_vars

\* the two sides of the law evaluated
LeftSide == call.r.v[1]
RightSide == call.r.v[2]

\* the assertion of the law passes: both sides return and are ==
LawHolds == ~IsExc(LeftSide) /\ ~IsExc(RightSide) /\ LitEq(LeftSide, RightSide)

\* the literals of the arguments drawn
Monoid(i) == Deep(call.pre, callerState.v[i])

\* C24: mappend and mempty obey the monoid laws on every three values of
\* one built-in monoid type, tuples of differing lengths among them:
\* mappend(mappend(a, b), c) == mappend(a, mappend(b, c)), and
\* mappend(mempty(a), a) == a == mappend(a, mempty(a))
C24_MonoidLaws ==
    call.op \in {"associativity", "left_identity", "right_identity"}
        => LawHolds

-----------------------------------------------------------------------------
(* The functor and applicative functions of typeclass.py on every functor,
   with functions as values *)

\* a function as a value: a function of CallFn by its name, or one of the
\* lambdas of the laws with the values it closes over
FnV(name, closed) == [t |-> "fn", v |-> name, a |-> closed]

\* f(a)
RECURSIVE Call(_, _, _)
Call(f, a, w) ==
    IF f.t = "ref" /\ w.heap[f.v].t = "collector"
    THEN \* arg_collector of collect_args: args.append(arg) on the list
         \* every call of this collector shares, then the tuple of the
         \* args when there are n of them, the collector itself otherwise
         Bind([w EXCEPT !.heap[f.v].v = Append(@, a)], LAMBDA appended :
         Out(IF Len(appended.heap[f.v].v) = appended.heap[f.v].n
             THEN TupleV(appended.heap[f.v].v) ELSE f, appended))
    ELSE IF f.t # "fn"
    THEN Out(Exc("TypeError", "object is not callable"), w)
    ELSE CASE f.v = "composed" ->
                \* lambda a: f1(f2(a))
                Then(Call(f.a[2], a, w), LAMBDA r : Call(f.a[1], r.r, r.w))
           [] f.v = "compose" ->
                \* compose(f1), and the lambda f2 it returns called
                Out(IF f.a = <<>> THEN FnV("compose", <<a>>)
                    ELSE FnV("composed", <<f.a[1], a>>), w)
           [] f.v = "at" ->
                \* lambda a: a(y)
                Call(a, f.a[1], w)
           [] f.v = "alternatives" ->
                \* lambda a: [a, -a]
                Then(CallFn("neg", a, w), LAMBDA r :
                Alloc(r.w, ListL(<<a, r.r>>)))
           [] f.v = "apbuilder" ->
                \* lambda values: self.builder(state, values)
                builder(f.a[1], f.a[2], a, w)
           [] OTHER -> CallFn(f.v, a, w)

\* [func(a) for a in items]
RECURSIVE CallEach(_, _, _)
CallEach(func, items, w) ==
    IF items = <<>> THEN Out(Items(<<>>), w)
    ELSE Then(Call(func, Head(items), w), LAMBDA first :
         Then(CallEach(func, Tail(items), first.w), LAMBDA others :
         Out(Items(<<first.r>> \o others.r.v), others.w)))

\* [f(i) for f in funcs], i being one item
RECURSIVE CallAll(_, _, _)
CallAll(funcs, i, w) ==
    IF funcs = <<>> THEN Out(Items(<<>>), w)
    ELSE Then(Call(Head(funcs), i, w), LAMBDA first :
         Then(CallAll(Tail(funcs), i, first.w), LAMBDA others :
         Out(Items(<<first.r>> \o others.r.v), others.w)))

\* [f(i) for i in items for f in funcs]
RECURSIVE CallProduct(_, _, _)
CallProduct(items, funcs, w) ==
    IF items = <<>> THEN Out(Items(<<>>), w)
    ELSE Then(CallAll(funcs, Head(items), w), LAMBDA first :
         Then(CallProduct(Tail(items), funcs, first.w), LAMBDA others :
         Out(Items(first.r.v \o others.r.v), others.w)))

IsList(x, w) == x.t = "ref" /\ w.heap[x.v].t = "list"

\* typeclass.fmap, dispatched on the type of the functor; the default is
\* functor.map(func): Just.map, Nothing.map, Identity.map, Const.map
tc_fmap(functor, func, w) ==
    CASE IsList(functor, w) ->
            Then(CallEach(func, w.heap[functor.v].v, w), LAMBDA r :
            Alloc(r.w, ListL(r.r.v)))
      [] IsTuple(functor) ->
            Then(CallEach(func, functor.v, w), LAMBDA r :
            Out(TupleV(r.r.v), r.w))
      [] functor.t = "just" ->
            Then(Call(func, functor.v, w), LAMBDA r : Out(JustV(r.r), r.w))
      [] functor.t = "nothing" -> Out(NothingV, w)
      [] functor.t = "Identity" ->
            Then(Call(func, functor.v, w), LAMBDA r :
            Out(Identity(r.r), r.w))
      [] functor.t = "Const" -> Out(Const(functor.v), w)
      [] OTHER -> Out(Exc("AttributeError", "map"), w)

\* typeclass.pure whose Const.pure keeps the item of self
tc_pure_keeps_item(applicative, item, w) ==
    CASE IsList(applicative, w) -> Alloc(w, ListL(<<item>>))
      [] IsTuple(applicative) -> Out(TupleV(<<item>>), w)
      [] applicative.t \in {"just", "nothing"} -> Out(JustV(item), w)
      [] applicative.t = "Identity" -> Out(Identity(item), w)
      [] applicative.t = "Const" -> Out(Const(applicative.v), w)
      [] OTHER -> Out(Exc("AttributeError", "pure"), w)

\* typeclass.pure, dispatched on the type of the applicative; the default
\* is applicative.pure(item): Identity.pure, Const.pure
tc_pure(applicative, item, w) ==
    CASE IsList(applicative, w) -> Alloc(w, ListL(<<item>>))
      [] IsTuple(applicative) -> Out(TupleV(<<item>>), w)
      [] applicative.t \in {"just", "nothing"} -> Out(JustV(item), w)
      [] applicative.t = "Identity" -> Out(Identity(item), w)
      [] applicative.t = "Const" ->
            Then(mempty(applicative.v, w), LAMBDA e : Out(Const(e.r), e.w))
      [] OTHER -> Out(Exc("AttributeError", "pure"), w)

\* typeclass.apply, dispatched on the type of the applicative; the
\* default is applicative.apply(func): Identity.apply, Const.apply
tc_apply(applicative, func, w) ==
    CASE IsList(applicative, w) ->
            Try(py_iter(w.heap, func), w, LAMBDA funcs :
            Then(CallProduct(w.heap[applicative.v].v, funcs.v, w),
                 LAMBDA r : Alloc(r.w, ListL(r.r.v))))
      [] IsTuple(applicative) ->
            Try(py_iter(w.heap, func), w, LAMBDA funcs :
            Then(CallProduct(applicative.v, funcs.v, w), LAMBDA r :
            Out(TupleV(r.r.v), r.w)))
      [] applicative.t \in {"just", "nothing"} ->
            IF applicative.t = "nothing" THEN Out(NothingV, w)
            ELSE IF func.t = "nothing" THEN Out(NothingV, w)
            ELSE IF func.t # "just"
            THEN Out(Exc("AttributeError", "is_nothing"), w)
            ELSE Then(Call(func.v, applicative.v, w), LAMBDA r :
                 Out(JustV(r.r), r.w))
      [] applicative.t = "Identity" ->
            IF func.t \notin {"Identity", "Const", "just"}
            THEN Out(Exc("AttributeError", "item"), w)
            ELSE Then(Call(func.v, applicative.v, w), LAMBDA r :
                 Out(Identity(r.r), r.w))
      [] applicative.t = "Const" ->
            IF func.t \notin {"Identity", "Const", "just"}
            THEN Out(Exc("AttributeError", "item"), w)
            ELSE Then(mappend(func.v, applicative.v, w), LAMBDA r :
                 Out(Const(r.r), r.w))
      [] OTHER -> Out(Exc("AttributeError", "apply"), w)

-----------------------------------------------------------------------------
(* The laws of the functors: a session that draws two functors of
   functions and a functor of values of one type and evaluates the two
   sides of one law *)

\* the functions inside the functors and the ones passed to the laws
LawFns == {FnV("inc", <<>>), FnV("neg", <<>>)}

\* the values passed to the laws
LawItems == {IntV(1), IntV(2)}

\* the functors a law is checked on, by type: the ones of functions and
\* the ones of values
FunctorFamilies ==
    { [u |-> {ListL(<<>>), ListL(<<FnV("inc", <<>>)>>),
              ListL(<<FnV("inc", <<>>), FnV("neg", <<>>)>>)},
       w |-> {ListL(<<>>), ListL(<<IntV(1)>>), ListL(<<IntV(1), IntV(2)>>)}],
      [u |-> {TupleV(<<>>), TupleV(<<FnV("neg", <<>>)>>),
              TupleV(<<FnV("neg", <<>>), FnV("inc", <<>>)>>)},
       w |-> {TupleV(<<>>), TupleV(<<IntV(2)>>), TupleV(<<IntV(1), IntV(2)>>),
              NTupleV(<<IntV(1), IntV(2)>>)}],
      [u |-> {Identity(FnV("inc", <<>>)), Identity(FnV("neg", <<>>))},
       w |-> {Identity(IntV(1)), Identity(IntV(2))}],
      [u |-> {NothingV, JustV(FnV("inc", <<>>)), JustV(FnV("neg", <<>>))},
       w |-> {NothingV, JustV(IntV(1)), JustV(IntV(2))}],
      [u |-> {Const(IntV(0)), Const(IntV(1)), Const(IntV(2))},
       w |-> {Const(IntV(0)), Const(IntV(1)), Const(IntV(2))}],
      [u |-> {Const(StrV(<<>>)), Const(StrV(<<"a">>)), Const(StrV(<<"b">>))},
       w |-> {Const(StrV(<<>>)), Const(StrV(<<"a">>)), Const(StrV(<<"b">>))}],
      [u |-> {Const(TupleV(<<IntV(1), StrV(<<"a">>)>>)),
              Const(TupleV(<<IntV(2), StrV(<<>>)>>))},
       w |-> {Const(TupleV(<<IntV(0), StrV(<<"b">>)>>)),
              Const(TupleV(<<IntV(1), StrV(<<"a">>)>>))}] }

FunctorTriples ==
    UNION { {TupleV(<<u, v, w>>) : u \in F.u, v \in F.u, w \in F.w} :
            F \in FunctorFamilies }

\* the loop of multiap over args[1:], on any functor
RECURSIVE multiap_loop_any(_, _, _)
multiap_loop_any(functor, args, w) ==
    IF args = <<>> THEN Out(functor, w)
    ELSE Then(tc_apply(Head(args), functor, w), LAMBDA r :
         multiap_loop_any(r.r, Tail(args), r.w))

\* multiap(func, *args) on any functor
multiap_any(func, args, w) ==
    IF args = <<>> THEN Out(Exc("IndexError", "tuple index out of range"), w)
    ELSE Then(tc_fmap(args[1], func, w), LAMBDA functor :
         multiap_loop_any(functor.r, Tail(args), functor.w))

\* Traversal.func with a Functorisor of any functor: f the function,
\* pure the item f.pure wraps
Traversal_func_any(self, f, state, w) ==
    Then(folder(self, state, w), LAMBDA foci :
    IF foci.r.v = <<>> THEN Alloc(foci.w, ListL(<<state>>))
    ELSE Then(Alloc(foci.w, collect_args(Len(foci.r.v))), LAMBDA collector :
         Then(CallEach(f, foci.r.v, collector.w), LAMBDA wrapped :
         Then(multiap_any(collector.r, wrapped.r.v, wrapped.w),
              LAMBDA applied :
         tc_fmap(applied.r, FnV("apbuilder", <<self, state>>), applied.w)))))

InitFunctors ==
    /\ \E s \in FunctorTriples :
        /\ heap = Build(s, <<>>).h
        /\ callerState = Build(s, <<>>).r
    /\ hashOrder = "ascending"
    /\ callerOptic = TrivialIso
    /\ rev = NoRe(TrivialIso)
    /\ made = NoMade
    /\ builderCache = <<>>
    /\ call = NoCall
    /\ lhs = TrivialIso
    /\ lhsLeaves = <<>>
    /\ rhs = TrivialIso
    /\ rhsLeaves = <<>>
    /\ comp = NoComp

\* the functors drawn
LawU == callerState.v[1]
LawV == callerState.v[2]
LawW == callerState.v[3]

\* fmap(data, identity) == identity(data)
DoFunctorIdentity ==
    RecordLaw("functor_identity", NoArg,
              tc_fmap(LawW, FnV("ident", <<>>), Start),
              LAMBDA w : Out(LawW, w))

\* fmap(functor, composed) == fmap(fmap(functor, f2), f1)
DoFunctorDistributive(f1, f2) ==
    RecordLaw("functor_distributive", <<f1, f2>>,
              tc_fmap(LawW, FnV("composed", <<f1, f2>>), Start),
              LAMBDA w : Then(tc_fmap(LawW, f2, w), LAMBDA r :
                              tc_fmap(r.r, f1, r.w)))

\* apply(data, pure(data, identity)) == data
DoApplicativeIdentity ==
    RecordLaw("applicative_identity", NoArg,
              Then(tc_pure(LawW, FnV("ident", <<>>), Start), LAMBDA p :
                   tc_apply(LawW, p.r, p.w)),
              LAMBDA w : Out(LawW, w))

\* apply(pure(appl, x), pure(appl, f)) == pure(appl, f(x))
DoHomomorphism(x, f) ==
    RecordLaw("homomorphism", <<x, f>>,
              Then(tc_pure(LawW, x, Start), LAMBDA px :
              Then(tc_pure(LawW, f, px.w), LAMBDA pf :
                   tc_apply(px.r, pf.r, pf.w))),
              LAMBDA w : Then(Call(f, x, w), LAMBDA fx :
                              tc_pure(LawW, fx.r, fx.w)))

\* apply(pure(appl, y), u) == apply(u, pure(appl, lambda a: a(y)))
DoInterchange(y) ==
    RecordLaw("interchange", y,
              Then(tc_pure(LawW, y, Start), LAMBDA py :
                   tc_apply(py.r, LawU, py.w)),
              LAMBDA w : Then(tc_pure(LawW, FnV("at", <<y>>), w), LAMBDA p :
                              tc_apply(LawU, p.r, p.w)))

\* apply(w, apply(v, apply(u, pure(appl, compose))))
\*     == apply(apply(w, v), u)
DoComposition ==
    RecordLaw("composition", NoArg,
              Then(tc_pure(LawW, FnV("compose", <<>>), Start), LAMBDA p :
              Then(tc_apply(LawU, p.r, p.w), LAMBDA cu :
              Then(tc_apply(LawV, cu.r, cu.w), LAMBDA cuv :
                   tc_apply(LawW, cuv.r, cuv.w)))),
              LAMBDA w : Then(tc_apply(LawW, LawV, w), LAMBDA vw :
                              tc_apply(vw.r, LawU, vw.w)))

\* EachTraversal().apply(lambda a: [a, -a], lambda a: [a], state), next
\* to the state
DoApplyAlternatives ==
    RecordLaw("apply_alternatives", NoArg,
              Traversal_func_any(EachTraversal, FnV("alternatives", <<>>),
                                 LawW, Start),
              LAMBDA w : Out(LawW, w))

NextFunctors ==
    \/ DoApplyAlternatives
    \/ DoFunctorIdentity
    \/ \E f1 \in LawFns, f2 \in LawFns : DoFunctorDistributive(f1, f2)
    \/ DoApplicativeIdentity
    \/ \E x \in LawItems, f \in LawFns : DoHomomorphism(x, f)
    \/ \E y \in LawItems : DoInterchange(y)
    \/ DoComposition

SpecFunctors == InitFunctors /\ [][NextFunctors]_vars

FunctorLaws == {"functor_identity", "functor_distributive"}

ApplicativeLaws ==
    {"applicative_identity", "homomorphism", "interchange", "composition"}

\* C25: fmap, pure and apply obey the two functor laws and the four
\* applicative laws (identity, homomorphism, interchange, composition)
\* on Identity, Maybe, Const over a monoid, lists and tuples: the two
\* sides of each law return and are equal
C25_FunctorLaws ==
    call.op \in FunctorLaws \cup ApplicativeLaws => LawHolds

\* the composition law on lists of two functions each and a list of two
\* values: the eight results agree on both sides
C25_Witness ==
    /\ call.op = "composition"
    /\ LawHolds
    /\ LeftSide.t = "list"
    /\ Len(LeftSide.v) = 8

-----------------------------------------------------------------------------
(* The Parts session: the caller wraps its optic in a PartsLens, composes
   it with a Setter and makes one call *)

\* the optics a caller calls Parts() on
PartsOptics ==
    { EachTraversal, And(EachTraversal, EachTraversal), IterableFold,
      And(EachTraversal, IterableFold), And(EachTraversal, Getter("neg")),
      GetitemLens(IntV(0)), TrivialIso }

PartsStates ==
    { ListL(<<IntV(1), IntV(2)>>),
      ListL(<<ListL(<<IntV(1)>>), ListL(<<IntV(2), IntV(1)>>)>>),
      TupleV(<<IntV(1), IntV(2)>>) }

\* the Setter a caller composes a PartsLens with
SetterOnly == ForkedSetter(<<GetitemLens(IntV(0)), GetitemLens(IntV(1))>>)

InitParts ==
    /\ \E s \in PartsStates :
        /\ heap = Build(s, <<>>).h
        /\ callerState = Build(s, <<>>).r
    /\ hashOrder = "ascending"
    /\ callerOptic \in PartsOptics
    /\ rev = NoRe(callerOptic)
    /\ made = NoMade
    /\ builderCache = <<>>
    /\ call = NoCall
    /\ lhs = TrivialIso
    /\ lhsLeaves = <<>>
    /\ rhs = TrivialIso
    /\ rhsLeaves = <<>>
    /\ comp = NoComp

\* BaseUiLens.Parts: optic = PartsLens(optic)
DoParts ==
    /\ call = NoCall
    /\ ~made.done
    /\ ~comp.done
    /\ made' = [done |-> TRUE, lenses |-> <<callerOptic>>,
                r |-> Returned(PartsLens(callerOptic))]
    /\ callerOptic' = PartsLens(callerOptic)
    /\ rev' = NoRe(callerOptic')
    /\ UNCHANGED <<heap, callerState, call, hashOrder, builderCache>>
    /\ UNCHANGED composeVars

\* optic = optic & SetterOnly; a caller whose composition raised keeps
\* its optic
DoComposeSetter ==
    /\ call = NoCall
    /\ ~comp.done
    /\ comp' = [done |-> TRUE, a |-> callerOptic, b |-> SetterOnly,
                leaves |-> <<>>, r |-> compose(callerOptic, SetterOnly)]
    /\ callerOptic' = IF compose(callerOptic, SetterOnly).ok
                      THEN compose(callerOptic, SetterOnly).v
                      ELSE callerOptic
    /\ rev' = NoRe(callerOptic')
    /\ UNCHANGED <<lhs, rhs, lhsLeaves, rhsLeaves>>
    /\ UNCHANGED <<heap, callerState, call, hashOrder, made, builderCache>>

NextParts ==
    \/ DoParts
    \/ DoComposeSetter
    \/ DoView
    \/ DoToListOf
    \/ \E fn \in Fns : DoOver(fn)
    \/ \E value \in SetValues : DoSet(value)

SpecParts == InitParts /\ [][NextParts]_vars

\* the optic Parts() was called on
Wrapped == made.lenses[1]

\* the caller's optic is the PartsLens of a Fold that is no Setter
PartsOfFold == made.done /\ ~comp.done /\ kind(Wrapped) = "Fold"

\* C26: Parts of an optic of kind Traversal is of kind Lens and Parts of
\* an optic that is only a Fold is of kind Getter; the latter has no
\* Setter capability, so that set and over on it raise the error of the
\* kind check before the state is looked at or fn is called, and
\* composing it with an optic that is only a Setter raises at the
\* composition
C26_Parts ==
    /\ (made.done /\ kind(Wrapped) = "Traversal") =>
            kind(made.r.v) = "Lens"
    /\ (made.done /\ kind(Wrapped) = "Fold") =>
            /\ kind(made.r.v) = "Getter"
            /\ ~is_kind(made.r.v, "Setter")
    /\ (PartsOfFold /\ call.op \in {"set", "over"}) =>
            /\ IsExc(call.r)
            /\ call.r.v[1] = "TypeError"
            /\ call.log = <<>>
    /\ (made.done /\ kind(Wrapped) = "Fold" /\ comp.done
            /\ comp.a = made.r.v) => ~comp.r.ok

\* the items a state is rebuilt from, one of the two alternatives for
\* each item
Combinations(items) ==
    { c \in [1..Len(items) -> {IntV(n) : n \in -2..2}] :
        \A i \in 1..Len(items) :
            c[i] = items[i] \/ c[i] = IntV(0 - items[i].v) }

\* C29: multiap and the argument collector are right for every lawful
\* applicative: a Traversal with N >= 2 foci applied through the list
\* applicative with a function of two alternatives for each focus
\* returns the 2^N states, one for each combination of alternatives,
\* each rebuilt from the N values of its combination in the order of the
\* foci
C29_MultiapAlternatives ==
    (call.op = "apply_alternatives" /\ RightSide.t \in {"list", "tuple"}
     /\ Len(RightSide.v) >= 2) =>
        /\ LeftSide.t = "list"
        /\ Len(LeftSide.v) = Cardinality(Combinations(RightSide.v))
        /\ Range(LeftSide.v) =
                {[RightSide EXCEPT !.v = c] : c \in Combinations(RightSide.v)}

====
